---- MODULE Spec2Model ----
(***************************************************************************)
(* Model of the extraction pipeline of the Court-Data Fetcher:             *)
(* CourtScraper.scrape_case_data and the stages it drives                  *)
(* (court_scraper.py), with the caller's cleanup call (app.py).            *)
(*                                                                         *)
(* Specifications:                                                         *)
(*   Spec          one scrape_case_data call, stage by stage               *)
(*   ParseSpec     one page source parsed twice by one session             *)
(*   DownloadSpec  calls of download_pdf                                   *)
(*   AppSpec       the handlers of app.py that scrape, and the database    *)
(*   ConcSpec      handlers side by side, each with its scraper            *)
(*   UtilSpec      the helpers of utils.py applied to one argument         *)
(*   RaisingSpec   one parse in which a step of the extraction may raise   *)
(*   DebugSpec     one test_captcha_detection call                         *)
(*   OrderSpec     requests of /download/<order_id> on a database of       *)
(*                 scraped cases                                           *)
(* Each leaves the variables of the others at their initial values.        *)
(*                                                                         *)
(* Text is a sequence of one-character strings.  XPath attribute tests     *)
(* (contains(@id,'captcha')) are tests on the attribute value of the       *)
(* element; every element of a page is a sibling of the others of its      *)
(* kind, so "[1]" and "[last()]" select the first and last of the kind.    *)
(***************************************************************************)
EXTENDS Integers, Sequences, FiniteSets, TLC

(***************************************************************************)
(* Bounds                                                                  *)
(***************************************************************************)
MaxRetriesBound == 3
MaxCleanup == 2
MaxDownloads == 2
NumRequests == 2
MaxTries == 2

(***************************************************************************)
(* Text helpers (Python str methods used by the scraper)                   *)
(***************************************************************************)
UpperChars == <<"A","B","C","D","E","F","G","H","I","J","K","L","M",
                "N","O","P","Q","R","S","T","U","V","W","X","Y","Z">>
LowerChars == <<"a","b","c","d","e","f","g","h","i","j","k","l","m",
                "n","o","p","q","r","s","t","u","v","w","x","y","z">>
Digits == {"0","1","2","3","4","5","6","7","8","9"}

IndexIn(c, s) == IF \E i \in 1..Len(s) : s[i] = c
                 THEN CHOOSE i \in 1..Len(s) : s[i] = c
                 ELSE 0

\* str.lower(), one character
LowerChar(c) == IF IndexIn(c, UpperChars) > 0 THEN LowerChars[IndexIn(c, UpperChars)] ELSE c
\* str.upper(), one character
UpperChar(c) == IF IndexIn(c, LowerChars) > 0 THEN UpperChars[IndexIn(c, LowerChars)] ELSE c

\* str.lower()
Lower(s) == [i \in 1..Len(s) |-> LowerChar(s[i])]
\* str.upper()
Upper(s) == [i \in 1..Len(s) |-> UpperChar(s[i])]

\* sub in s
Contains(s, sub) ==
    \E i \in 1..(Len(s) - Len(sub) + 1) : SubSeq(s, i, i + Len(sub) - 1) = sub

\* str.isdigit(): non-empty and every character a digit
IsDigit(s) == Len(s) > 0 /\ \A i \in 1..Len(s) : s[i] \in Digits

\* str.strip() (spaces are the only whitespace of the modelled texts)
Strip(s) ==
    IF \A i \in 1..Len(s) : s[i] = " " THEN <<>>
    ELSE LET a == CHOOSE i \in 1..Len(s) : s[i] # " " /\ \A j \in 1..(i-1) : s[j] = " "
             b == CHOOSE i \in 1..Len(s) : s[i] # " " /\ \A j \in (i+1)..Len(s) : s[j] = " "
         IN SubSeq(s, a, b)

(***************************************************************************)
(* Result records (the dicts returned by scrape_case_data)                 *)
(***************************************************************************)
ErrNoRecord == "No record found for the specified case."
ErrNoTable == "Results table not found on the page."
ErrNoRows == "No data rows found in the results table."
ErrElements == "Failed to find required elements on the page"
ErrAllFailed == "All scraping attempts failed"
ErrDriver == "WebDriverException"
ErrParse == "Error parsing results: "

\* Python None: no dict at all
NoneResult == <<>>

FailureResult(msg) == [success |-> FALSE, error |-> msg]

\* the final return of scrape_case_data, after the loop
ExhaustedResult_Missing == NoneResult
ExhaustedResult == FailureResult(ErrAllFailed)

(***************************************************************************)
(* Result markup: the page the site answers a submitted search with.       *)
(*   text       the character data of the markup                           *)
(*   hasTable   some element matches one of the table selectors            *)
(*   nrows      the number of tr rows of that table                        *)
(*   cols       the td cells of the second row: [text, links]              *)
(*   otherLinks the href of every anchor outside that row, document order  *)
(*   ordersLink the rendered page has an "Orders" anchor                   *)
(*   ordersPdfs the href of the anchors of the page behind it              *)
(***************************************************************************)
PyNone == <<"None">>

BaseUrl == <<"h","t","t","p","s",":","/","/","d","e","l","h","i","h","i","g","h",
             "c","o","u","r","t",".","n","i","c",".","i","n">>

NoRecordPhrases ==
    { <<"n","o"," ","r","e","c","o","r","d"," ","f","o","u","n","d">>,
      <<"n","o"," ","d","a","t","a"," ","f","o","u","n","d">>,
      <<"r","e","c","o","r","d"," ","n","o","t"," ","f","o","u","n","d">> }

\* any(phrase in html_content.lower() for phrase in [...])
HasNoRecordPhrase_CaseSensitive(text) ==
    \E ph \in NoRecordPhrases : Contains(text, ph)

HasNoRecordPhrase(text) ==
    \E ph \in NoRecordPhrases : Contains(Lower(text), ph)

\* the check of line 352 over the whole markup: its character data, the text
\* of its cells and its hrefs (a phrase does not span a tag)
HtmlHasNoRecordPhrase(markup) ==
    \/ HasNoRecordPhrase(markup.text)
    \/ \E i \in 1..Len(markup.cols) :
          \/ HasNoRecordPhrase(markup.cols[i].text)
          \/ \E j \in 1..Len(markup.cols[i].links) : HasNoRecordPhrase(markup.cols[i].links[j])
    \/ \E j \in 1..Len(markup.otherLinks) : HasNoRecordPhrase(markup.otherLinks[j])

StartsWith(s, pre) == Len(s) >= Len(pre) /\ SubSeq(s, 1, Len(pre)) = pre

\* '.pdf' in href.lower()
IsPdfHref(href) == Contains(Lower(href), <<".","p","d","f">>)

\* urljoin(self.base_url, href); the base has no path component
UrlJoin(base, href) ==
    IF StartsWith(href, <<"h","t","t","p">>) THEN href
    ELSE IF StartsWith(href, <<"/">>) THEN base \o href
    ELSE IF href = <<>> THEN base
    ELSE base \o <<"/">> \o href

\* the hrefs of a sequence of cells, in document order
RECURSIVE ColLinks(_)
ColLinks(cols) ==
    IF cols = <<>> THEN <<>> ELSE Head(cols).links \o ColLinks(Tail(cols))

\* [urljoin(base, h) for h in hrefs if '.pdf' in h.lower()]
RECURSIVE PdfUrls(_)
PdfUrls(hrefs) ==
    IF hrefs = <<>> THEN <<>>
    ELSE IF IsPdfHref(Head(hrefs))
         THEN <<UrlJoin(BaseUrl, Head(hrefs))>> \o PdfUrls(Tail(hrefs))
         ELSE PdfUrls(Tail(hrefs))

\* the "remove duplicates while preserving order" loop
Unique_KeepAll(urls, seen) == seen \o urls

RECURSIVE Unique(_, _)
Unique(urls, seen) ==
    IF urls = <<>> THEN seen
    ELSE IF \E i \in 1..Len(seen) : seen[i] = Head(urls)
         THEN Unique(Tail(urls), seen)
         ELSE Unique(Tail(urls), Append(seen, Head(urls)))

\* the links //a[contains(@href, '.pdf')] selects (XPath compares case), each
\* as href if href.startswith("http") else urljoin(base, href)
RECURSIVE OrdersPageUrls(_)
OrdersPageUrls(hrefs) ==
    IF hrefs = <<>> THEN <<>>
    ELSE IF ~Contains(Head(hrefs), <<".","p","d","f">>) THEN OrdersPageUrls(Tail(hrefs))
    ELSE <<UrlJoin(BaseUrl, Head(hrefs))>> \o OrdersPageUrls(Tail(hrefs))

\* _check_orders_page: the pdf urls it returns.  It looks at the page the
\* session shows (shown), not at the source being parsed.  Every driver call
\* raises in a crashed session and each selector's failure is swallowed.
CheckOrdersPage(shown, crashed) ==
    IF crashed THEN <<>>
    ELSE IF shown.ordersLink THEN OrdersPageUrls(shown.ordersPdfs)
    ELSE <<>>

\* _check_orders_page clicked an orders link of the page shown
OrdersClicked(cols, shown, crashed) ==
    PdfUrls(ColLinks(cols)) = <<>> /\ ~crashed /\ shown.ordersLink

\* the urls the three methods of _extract_pdfs_enhanced collect, before the
\* duplicates are removed; otherLinks follow the row in the document
FoundPdfs_AllMethods(markup, cols, shown, crashed) ==
    PdfUrls(ColLinks(cols)) \o CheckOrdersPage(shown, crashed)
        \o PdfUrls(ColLinks(cols) \o markup.otherLinks)

FoundPdfs(markup, cols, shown, crashed) ==
    LET m1 == PdfUrls(ColLinks(cols))
        m2 == IF m1 = <<>> THEN CheckOrdersPage(shown, crashed) ELSE m1
    IN IF m2 = <<>> THEN PdfUrls(ColLinks(cols) \o markup.otherLinks) ELSE m2

\* _extract_pdfs_enhanced
ExtractPdfsEnhanced(markup, cols, shown, crashed) ==
    Unique(FoundPdfs(markup, cols, shown, crashed), <<>>)

\* first index at which sub occurs in s, 0 if none
FirstIndex(s, sub) ==
    IF Contains(s, sub)
    THEN CHOOSE i \in 1..(Len(s) - Len(sub) + 1) :
            /\ SubSeq(s, i, i + Len(sub) - 1) = sub
            /\ \A j \in 1..(i-1) : SubSeq(s, j, j + Len(sub) - 1) # sub
    ELSE 0

VsSep == <<"V","S",".">>

\* parties_text.upper().split("VS.")[0] and [1]
SplitFirst(s, sep) == SubSeq(s, 1, FirstIndex(s, sep) - 1)
SplitSecond(s, sep) ==
    LET rest == SubSeq(s, FirstIndex(s, sep) + Len(sep), Len(s))
    IN IF Contains(rest, sep) THEN SplitFirst(rest, sep) ELSE rest

\* the plaintiff / defendant of the parties column
Parties(cols) ==
    LET parties_text == IF Len(cols) > 2 THEN Strip(cols[3].text) ELSE <<>>
    IN IF Contains(Upper(parties_text), VsSep)
       THEN [plaintiff |-> Strip(SplitFirst(Upper(parties_text), VsSep)),
             defendant |-> Strip(SplitSecond(Upper(parties_text), VsSep))]
       ELSE [plaintiff |-> parties_text, defendant |-> <<"N","/","A">>]

\* s[i..i+9] has the shape \d{2}/\d{2}/\d{4}
DateAt(s, i) ==
    /\ i + 9 <= Len(s)
    /\ \A k \in {0, 1, 3, 4, 6, 7, 8, 9} : s[i + k] \in Digits
    /\ s[i + 2] = "/" /\ s[i + 5] = "/"

\* re.findall(r'\d{2}/\d{2}/\d{4}', s): non-overlapping, left to right
RECURSIVE FindDates(_, _)
FindDates(s, i) ==
    IF i > Len(s) THEN <<>>
    ELSE IF DateAt(s, i) THEN <<SubSeq(s, i, i + 9)>> \o FindDates(s, i + 10)
    ELSE FindDates(s, i + 1)

\* f"{parts[2]}-{parts[1]}-{parts[0]}" of d.split('/')
ToIsoDate_DayFirst(d) == SubSeq(d, 7, 10) \o <<"-">> \o SubSeq(d, 1, 2) \o <<"-">> \o SubSeq(d, 4, 5)

ToIsoDate(d) == SubSeq(d, 7, 10) \o <<"-">> \o SubSeq(d, 4, 5) \o <<"-">> \o SubSeq(d, 1, 2)

RECURSIVE Orders(_, _)
Orders(urls, date) ==
    IF urls = <<>> THEN <<>>
    ELSE <<[date |-> date, type |-> "Order", pdf_url |-> Head(urls)]>> \o Orders(Tail(urls), date)

SuccessKeys == {"success", "parties", "filing_date", "next_hearing", "status", "orders", "raw_html"}
FailureKeys == {"success", "error"}

\* _parse_case_results_enhanced(html_content), called while the session shows
\* the page "shown"
ParseCaseResultsEnhanced_RowsUnchecked(markup, shown, crashed) ==
    IF HtmlHasNoRecordPhrase(markup) THEN FailureResult(ErrNoRecord)
    ELSE IF ~markup.hasTable THEN FailureResult(ErrNoTable)
    ELSE [success |-> TRUE,
          parties |-> Parties(markup.cols),
          filing_date |-> PyNone,
          next_hearing |-> PyNone,
          status |-> "Active",
          orders |-> Orders(ExtractPdfsEnhanced(markup, markup.cols, shown, crashed), PyNone),
          raw_html |-> markup]

ParseCaseResultsEnhanced(markup, shown, crashed) ==
    IF HtmlHasNoRecordPhrase(markup) THEN FailureResult(ErrNoRecord)
    ELSE IF ~markup.hasTable THEN FailureResult(ErrNoTable)
    ELSE IF markup.nrows < 2 THEN FailureResult(ErrNoRows)
    ELSE LET cols == markup.cols
             listing_text == IF Len(cols) > 3 THEN Strip(cols[4].text) ELSE <<>>
             dates_found == FindDates(listing_text, 1)
             filing_date == IF Len(dates_found) > 0 THEN ToIsoDate(dates_found[1]) ELSE PyNone
             next_hearing_date == IF Len(dates_found) > 1 THEN ToIsoDate(dates_found[2]) ELSE PyNone
         IN [success |-> TRUE,
             parties |-> Parties(cols),
             filing_date |-> filing_date,
             next_hearing |-> next_hearing_date,
             status |-> "Active",
             orders |-> Orders(ExtractPdfsEnhanced(markup, cols, shown, crashed), filing_date),
             raw_html |-> markup]

(***************************************************************************)
(* The search page as the browser holds it (the DOM the stages act on).    *)
(*   selects  [id, name, class, options, selected]                         *)
(*   inputs   [id, name, placeholder, type, writable, value]               *)
(*   texts    [tag, id, class, inCaptchaDiv, visible, text]: the span and  *)
(*            div elements that carry text; inCaptchaDiv is "class" or     *)
(*            "id" for a span below a div whose class or id has 'captcha'  *)
(*   buttons  [tag, text, type, class, value]                              *)
(* Attribute values are tokens; SubTokens lists the needles of the         *)
(* selectors that a value contains as a substring.                         *)
(***************************************************************************)
SubTokens(val) ==
    CASE val = "case_type"   -> {"case_type", "case"}
      [] val = "case_number" -> {"case_number", "case"}
      [] val = "case_year"   -> {"case_year", "year", "case"}
      [] val = "year"        -> {"year"}
      [] val = "captcha"     -> {"captcha"}
      [] val = "Enter case"  -> {"case"}
      [] val = "Submit"      -> {"Submit"}
      [] val = "submit"      -> {"submit"}
      [] val = "btn submit"  -> {"submit"}
      [] OTHER               -> {}

\* XPath contains(@attr, needle)
AttrContains(val, needle) == needle \in SubTokens(val)

\* index of the first TRUE of a sequence of test results, 0 if none
FirstTrue(bs) ==
    IF \E i \in 1..Len(bs) : bs[i]
    THEN CHOOSE i \in 1..Len(bs) : bs[i] /\ \A j \in 1..(i-1) : ~bs[j]
    ELSE 0

\* index of the last TRUE of a sequence of test results, 0 if none
LastTrue(bs) ==
    IF \E i \in 1..Len(bs) : bs[i]
    THEN CHOOSE i \in 1..Len(bs) : bs[i] /\ \A j \in (i+1)..Len(bs) : ~bs[j]
    ELSE 0

\* find_element(By.XPATH, selector) over the selects: the index found, 0 if
\* NoSuchElement.  A selector is [by, needle].
FindSelect(selects, sel) ==
    LET ById(e) == AttrContains(e.id, sel.needle)
        ByName(e) == AttrContains(e.name, sel.needle)
        ByClass(e) == AttrContains(e.class, sel.needle)
    IN CASE sel.by = "id"    -> FirstTrue([i \in 1..Len(selects) |-> ById(selects[i])])
         [] sel.by = "name"  -> FirstTrue([i \in 1..Len(selects) |-> ByName(selects[i])])
         [] sel.by = "class" -> FirstTrue([i \in 1..Len(selects) |-> ByClass(selects[i])])
         [] sel.by = "first" -> IF Len(selects) > 0 THEN 1 ELSE 0
         [] sel.by = "last"  -> Len(selects)

\* find_element(By.XPATH, selector) over the inputs
FindInput(inputs, sel) ==
    LET ById(e) == AttrContains(e.id, sel.needle)
        ByName(e) == AttrContains(e.name, sel.needle)
        ByPlaceholder(e) == AttrContains(e.placeholder, sel.needle)
        IsText(e) == e.type = "text"
    IN CASE sel.by = "id"          -> FirstTrue([i \in 1..Len(inputs) |-> ById(inputs[i])])
         [] sel.by = "name"        -> FirstTrue([i \in 1..Len(inputs) |-> ByName(inputs[i])])
         [] sel.by = "placeholder" -> FirstTrue([i \in 1..Len(inputs) |-> ByPlaceholder(inputs[i])])
         [] sel.by = "first"       -> FirstTrue([i \in 1..Len(inputs) |-> IsText(inputs[i])])
         [] sel.by = "last"        -> LastTrue([i \in 1..Len(inputs) |-> IsText(inputs[i])])

case_type_selectors ==
    << [by |-> "id", needle |-> "case_type"], [by |-> "name", needle |-> "case_type"],
       [by |-> "class", needle |-> "case_type"], [by |-> "first", needle |-> ""] >>

case_number_selectors ==
    << [by |-> "id", needle |-> "case_number"], [by |-> "name", needle |-> "case_number"],
       [by |-> "placeholder", needle |-> "case"], [by |-> "first", needle |-> ""] >>

year_selectors ==
    << [by |-> "id", needle |-> "case_year"], [by |-> "name", needle |-> "year"],
       [by |-> "class", needle |-> "year"], [by |-> "last", needle |-> ""] >>

captcha_input_selectors ==
    << [by |-> "id", needle |-> "captcha"], [by |-> "name", needle |-> "captcha"],
       [by |-> "placeholder", needle |-> "captcha"], [by |-> "last", needle |-> ""] >>

\* the select a selector list commits to for an option: the element of the
\* first selector that finds one holding the option; 0 if every selector fails
RECURSIVE SelectTarget(_, _, _)
SelectTarget(selects, sels, option) ==
    IF sels = <<>> THEN 0
    ELSE LET i == FindSelect(selects, Head(sels))
         IN IF i > 0 /\ option \in selects[i].options THEN i
            ELSE SelectTarget(selects, Tail(sels), option)

\* the input a selector list commits to: the element of the first selector
\* that finds one accepting clear() and send_keys(); 0 if every selector fails
RECURSIVE InputTarget_NoWriteCheck(_, _)
InputTarget_NoWriteCheck(inputs, sels) ==
    IF sels = <<>> THEN 0
    ELSE LET i == FindInput(inputs, Head(sels))
         IN IF i > 0 THEN i
            ELSE InputTarget_NoWriteCheck(inputs, Tail(sels))

RECURSIVE InputTarget(_, _)
InputTarget(inputs, sels) ==
    IF sels = <<>> THEN 0
    ELSE LET i == FindInput(inputs, Head(sels))
         IN IF i > 0 /\ inputs[i].writable THEN i
            ELSE InputTarget(inputs, Tail(sels))

\* _fill_search_form_enhanced: [ok, page]
FillSearchFormEnhanced_SkipsYear(page, q, crashed) ==
    LET t == SelectTarget(page.selects, case_type_selectors, q.case_type)
        p1 == [page EXCEPT !.selects[t].selected = q.case_type]
        n == InputTarget(p1.inputs, case_number_selectors)
        p2 == [p1 EXCEPT !.inputs[n].value = q.case_number]
    IN IF crashed \/ t = 0 THEN [ok |-> FALSE, page |-> page]
       ELSE IF n = 0 THEN [ok |-> FALSE, page |-> p1]
       ELSE [ok |-> TRUE, page |-> p2]

FillSearchFormEnhanced(page, q, crashed) ==
    LET t == SelectTarget(page.selects, case_type_selectors, q.case_type)
        p1 == [page EXCEPT !.selects[t].selected = q.case_type]
        n == InputTarget(p1.inputs, case_number_selectors)
        p2 == [p1 EXCEPT !.inputs[n].value = q.case_number]
        y == SelectTarget(p2.selects, year_selectors, q.filing_year)
        p3 == [p2 EXCEPT !.selects[y].selected = q.filing_year]
    IN IF crashed \/ t = 0 THEN [ok |-> FALSE, page |-> page]
       ELSE IF n = 0 THEN [ok |-> FALSE, page |-> p1]
       ELSE IF y = 0 THEN [ok |-> FALSE, page |-> p2]
       ELSE [ok |-> TRUE, page |-> p3]

\* find_elements(By.XPATH, captcha_selectors[k]), k = 1..7
CaptchaCandidates(texts, k) ==
    LET S1(e) == e.tag = "span" /\ AttrContains(e.class, "captcha")
        S2(e) == e.tag = "span" /\ AttrContains(e.id, "captcha")
        S3(e) == e.tag = "span" /\ e.inCaptchaDiv = "class"
        S4(e) == e.tag = "span" /\ e.inCaptchaDiv = "id"
        S5(e) == e.tag = "span"
        S6(e) == AttrContains(e.class, "captcha")
        S7(e) == AttrContains(e.id, "captcha")
    IN CASE k = 1 -> SelectSeq(texts, S1)
         [] k = 2 -> SelectSeq(texts, S2)
         [] k = 3 -> SelectSeq(texts, S3)
         [] k = 4 -> SelectSeq(texts, S4)
         [] k = 5 -> SelectSeq(texts, S5)
         [] k = 6 -> SelectSeq(texts, S6)
         [] k = 7 -> SelectSeq(texts, S7)

NumCaptchaSelectors == 7
MinCaptchaLen == 3
MaxSourceCaptchaLen == 6

\* element.text.strip(): the rendered text
ElementText(e) == IF e.visible THEN Strip(e.text) ELSE <<>>

\* text and text.isdigit() and len(text) >= 3
IsChallengeText(text) == IsDigit(text) /\ Len(text) >= MinCaptchaLen

\* the selector loop: the challenge text of the first candidate element, in
\* selector order then document order, PyNone if none
RECURSIVE ElementChallenge(_, _)
ElementChallenge(texts, k) ==
    IF k > NumCaptchaSelectors THEN PyNone
    ELSE LET Q(e) == IsChallengeText(ElementText(e))
             found == SelectSeq(CaptchaCandidates(texts, k), Q)
         IN IF found # <<>> THEN ElementText(found[1])
            ELSE ElementChallenge(texts, k + 1)

\* re.findall(r'<span[^>]*>(\d{3,6})</span>', page_source)[0], PyNone if none
SourceChallenge(texts) ==
    LET M(e) == e.tag = "span" /\ IsDigit(e.text)
                /\ Len(e.text) >= MinCaptchaLen /\ Len(e.text) <= MaxSourceCaptchaLen
        found == SelectSeq(texts, M)
    IN IF found # <<>> THEN found[1].text ELSE PyNone

\* the captcha_text the detection part of _handle_captcha_enhanced ends with
DetectChallenge(page, crashed) ==
    IF crashed THEN PyNone
    ELSE IF ElementChallenge(page.texts, 1) # PyNone THEN ElementChallenge(page.texts, 1)
    ELSE SourceChallenge(page.texts)

\* _handle_captcha_enhanced: [ok, page]
HandleCaptchaEnhanced_FailWithout(page, crashed) ==
    LET captcha_text == DetectChallenge(page, crashed)
        c == InputTarget(page.inputs, captcha_input_selectors)
    IN IF captcha_text = PyNone THEN [ok |-> FALSE, page |-> page]
       ELSE IF c = 0 THEN [ok |-> FALSE, page |-> page]
       ELSE [ok |-> TRUE, page |-> [page EXCEPT !.inputs[c].value = captcha_text]]

HandleCaptchaEnhanced(page, crashed) ==
    LET captcha_text == DetectChallenge(page, crashed)
        c == InputTarget(page.inputs, captcha_input_selectors)
    IN IF captcha_text = PyNone THEN [ok |-> TRUE, page |-> page]
       ELSE IF c = 0 THEN [ok |-> FALSE, page |-> page]
       ELSE [ok |-> TRUE, page |-> [page EXCEPT !.inputs[c].value = captcha_text]]

\* the button _submit_form clicks: the first of submit_selectors that finds an
\* element; 0 if none does
SubmitTarget(buttons) ==
    LET B1(b) == b.tag = "button" /\ AttrContains(b.text, "Submit")
        B2(b) == b.tag = "input" /\ b.type = "submit"
        B3(b) == b.tag = "button" /\ b.type = "submit"
        B4(b) == b.tag = "button" /\ AttrContains(b.class, "submit")
        B5(b) == b.tag = "input" /\ AttrContains(b.value, "Submit")
        f1 == FirstTrue([i \in 1..Len(buttons) |-> B1(buttons[i])])
        f2 == FirstTrue([i \in 1..Len(buttons) |-> B2(buttons[i])])
        f3 == FirstTrue([i \in 1..Len(buttons) |-> B3(buttons[i])])
        f4 == FirstTrue([i \in 1..Len(buttons) |-> B4(buttons[i])])
        f5 == FirstTrue([i \in 1..Len(buttons) |-> B5(buttons[i])])
    IN IF f1 > 0 THEN f1
       ELSE IF f2 > 0 THEN f2
       ELSE IF f3 > 0 THEN f3
       ELSE IF f4 > 0 THEN f4
       ELSE f5

\* _submit_form: TRUE iff a click was dispatched
SubmitForm(page, crashed) == ~crashed /\ SubmitTarget(page.buttons) > 0

(***************************************************************************)
(* Inputs: the query, the search pages the site may serve and the result   *)
(* pages it may answer with.                                               *)
(***************************************************************************)
Query == [case_type |-> "Civil Appeal", case_number |-> <<"1","2","3","4">>, filing_year |-> "2023"]

SelectEl(id, opts) == [id |-> id, name |-> "", class |-> "", options |-> opts, selected |-> ""]
TypeOptions == {"Civil Appeal", "Writ Petition"}
YearOptions == {"2023", "2022"}
SelectConfigs ==
    { << SelectEl("case_type", TypeOptions), SelectEl("case_year", YearOptions) >>,
      << SelectEl("", TypeOptions), SelectEl("", YearOptions) >>,
      << SelectEl("case_type", TypeOptions) >>,
      << >> }

InputEl(id, ph, w) ==
    [id |-> id, name |-> "", placeholder |-> ph, type |-> "text", writable |-> w, value |-> <<>>]
InputConfigs ==
    { << InputEl("case_number", "", TRUE), InputEl("captcha", "", TRUE) >>,
      << InputEl("case_number", "", TRUE), InputEl("captcha", "", FALSE) >>,
      << InputEl("", "Enter case", TRUE) >>,
      << InputEl("case_number", "", TRUE) >>,
      << InputEl("case_number", "", FALSE), InputEl("", "Enter case", TRUE) >>,
      << >> }

TextEl(tag, class, vis, text) ==
    [tag |-> tag, id |-> "", class |-> class, inCaptchaDiv |-> "", visible |-> vis, text |-> text]
TextConfigs ==
    { << >>,
      << TextEl("span", "captcha", TRUE, <<"4","7","1","9">>) >>,
      << TextEl("span", "", FALSE, <<"8","8","2">>) >>,
      << TextEl("span", "captcha", TRUE, <<"1","2">>) >>,
      << TextEl("span", "", TRUE, <<"a","b","1">>), TextEl("div", "captcha", TRUE, <<" ","5","6","0"," ">>) >>,
      << TextEl("span", "", TRUE, <<"N","o","t","e">>) >> }

ButtonEl(tag, text, type) == [tag |-> tag, text |-> text, type |-> type, class |-> "", value |-> ""]
ButtonConfigs ==
    { << ButtonEl("button", "Submit", "") >>,
      << ButtonEl("input", "", "submit") >>,
      << >> }

FormPages ==
    { [selects |-> s, inputs |-> i, texts |-> t, buttons |-> b] :
        s \in SelectConfigs, i \in InputConfigs, t \in TextConfigs, b \in ButtonConfigs }

\* no page loaded
BlankPage == [selects |-> <<>>, inputs |-> <<>>, texts |-> <<>>, buttons |-> <<>>]

Cell(text, links) == [text |-> text, links |-> links]
PartiesText == <<"J","o","h","n"," ","D","o","e"," ","v","s","."," ","S","t","a","t","e">>
ListingText == <<"1","5","/","0","3","/","2","0","2","3"," ","2","0","/","0","6","/","2","0","2","3">>
PdfA == <<"/","o","/","a",".","p","d","f">>
PdfB == <<"h","t","t","p",":","/","/","x","/","b",".","P","D","F">>
RowConfigs ==
    { << Cell(<<"1">>, <<>>), Cell(<<"W","P">>, <<>>), Cell(PartiesText, <<>>), Cell(ListingText, <<PdfA, PdfB, PdfA>>) >>,
      << Cell(<<"1">>, <<>>), Cell(<<"W","P">>, <<>>), Cell(<<"A","c","m","e">>, <<>>), Cell(<<"n","/","a">>, <<>>) >>,
      << Cell(<<"1">>, <<>>) >> }

MarkupTexts ==
    { <<"R","e","s","u","l","t","s">>,
      <<"N","o"," ","R","e","c","o","r","d"," ","F","o","u","n","d">>,
      <<"x"," ","N","O"," ","D","A","T","A"," ","F","O","U","N","D","!">>,
      <<"r","e","c","o","r","d"," ","n","o","t"," ","f","o","u","n","d">>,
      <<"n","o"," ","r","e","c","o","r","d","s"," ","f","o","u","n","d">> }

TableShapes ==
    { [hasTable |-> FALSE, nrows |-> 0, cols |-> <<>>],
      [hasTable |-> TRUE, nrows |-> 1, cols |-> <<>>] }
    \cup { [hasTable |-> TRUE, nrows |-> 2, cols |-> c] : c \in RowConfigs }

LinkShapes ==
    { [otherLinks |-> <<>>, ordersLink |-> FALSE, ordersPdfs |-> <<>>],
      [otherLinks |-> <<PdfB>>, ordersLink |-> TRUE, ordersPdfs |-> <<PdfA, PdfB, PdfA>>] }

ResultPages ==
    { [text |-> t, hasTable |-> sh.hasTable, nrows |-> sh.nrows, cols |-> sh.cols,
       otherLinks |-> l.otherLinks, ordersLink |-> l.ordersLink, ordersPdfs |-> l.ordersPdfs] :
        t \in MarkupTexts, sh \in TableShapes, l \in LinkShapes }

\* no result page loaded
BlankMarkup == [text |-> <<>>, hasTable |-> FALSE, nrows |-> 0, cols |-> <<>>,
                otherLinks |-> <<>>, ordersLink |-> FALSE, ordersPdfs |-> <<>>]

(***************************************************************************)
(* State of one CourtScraper instance serving one request                  *)
(***************************************************************************)
VARIABLES
    pc,           \* position in scrape_case_data / its caller
    max_retries,  \* self.max_retries
    attempt,      \* the loop variable of scrape_case_data
    driver,       \* self.driver: 0 is None, else the number of a session
    sessions,     \* sessions[k]: how often quit() was called on browser session k
    crashed,      \* the browser of self.driver died: every driver call raises
    page,         \* the search page the session holds
    markup,       \* the page the site answered the attempt's submit click with
    result,       \* the value scrape_case_data returned, NoneResult before
    setupCalls,   \* number of _setup_driver calls (attempts started)
    backoffs,     \* number of time.sleep(5) calls
    lastFail,     \* what ended the latest attempt
    stagesRun,    \* the stages of the current attempt: [stage, sess, ok]
    closeCalls,   \* number of _close_driver calls
    quitRaised,   \* the latest _close_driver call had quit() raise
    lastParse,    \* what _parse_case_results_enhanced returned in the attempt
    setupFails,   \* number of _setup_driver calls that returned False
    cleanups      \* number of cleanup calls of the caller

\* A page source parsed more than once by one live session
VARIABLES
    ppc,          \* position: "idle", "first", "again", "parsed"
    html,         \* html_content handed to _parse_case_results_enhanced
    live,         \* the page the browser of the session shows
    firstParse,   \* what the first call returned
    secondParse,  \* what the second call returned
    raising       \* the step of the extraction that raises in the call, "none" if none does

scrapeVars == <<pc, max_retries, attempt, driver, sessions, crashed, page, markup, result,
                setupCalls, backoffs, lastFail, stagesRun, closeCalls, quitRaised, lastParse,
                setupFails, cleanups>>
\* Calls of CourtScraper.download_pdf, and the route /download/<order_id>
VARIABLES
    downloads,    \* the calls so far: [resp, out], the response met and the outcome
    localPaths,   \* column local_pdf_path of table Order: localPaths[id], for the ids where it is set
    files,        \* the upload folder: files[path] is the content of the file at path
    served        \* what download_order answered so far: [order, how, body]

\* The Flask application: its database and the requests being served
VARIABLES
    cases,        \* table Case: cases[id] = [case_type, case_number, filing_year, status, response_data]
    details,      \* table CaseDetail, in insertion order
    orderRows,    \* table Order, in insertion order
    reqs          \* reqs[r]: the r-th request of the run, see IdleRequest

\* Handlers running side by side, each with the scraper it constructed
VARIABLES
    instances,    \* the CourtScraper objects constructed: instances[k] is self.driver of the k-th
    handlers,     \* handlers[r] = [at, scraper, tries]: position, scraper_instance, attempts begun
    touched       \* the pairs <<s, r>>: handler r drove or quit session s

\* One argument handed to the helpers of utils.py
VARIABLES
    given,        \* the argument
    validated,    \* what validate_case_number returned for it: "unset" before the call
    sanitized     \* what sanitize_filename returned for it: NoneResult before the call

parseVars == <<ppc, html, live, firstParse, secondParse, raising>>
downloadVars == <<downloads, localPaths, files, served>>
appVars == <<cases, details, orderRows, reqs>>
concVars == <<instances, handlers, touched>>
utilVars == <<given, validated, sanitized>>
restVars == <<parseVars, downloadVars, appVars, concVars, utilVars>>

vars == <<scrapeVars, restVars>>

\* no page source is being parsed on its own
ParseIdle ==
    /\ ppc = "idle"
    /\ html = BlankMarkup
    /\ live = BlankMarkup
    /\ firstParse = NoneResult
    /\ secondParse = NoneResult
    /\ raising = "none"

\* download_pdf has not been called, no order was requested, no file is kept
DownloadIdle ==
    /\ downloads = <<>>
    /\ localPaths = <<>>
    /\ files = <<>>
    /\ served = <<>>

NoArgs == <<>>
BlankForm == [case_type |-> <<>>, case_number |-> <<>>, filing_year |-> <<>>]

\* a request that has not arrived.
\*   kind      "none", "search" (/search), "api" (/api/search), "retry" (/retry-case/<id>)
\*   step      "idle", "scraping" (scrape_case_data is running), "done"
\*   form      the fields submitted; target: the <case_id> of a retry url
\*   case      id of the Case row the handler works on, 0 for none
\*   args      the arguments scrape_case_data was called with, NoArgs if it was not
\*   result    what scrape_case_data returned
\*   err       the database error met after the scrape: "none", "save", "commit"
\*   response  what the handler answered with
IdleRequest ==
    [kind |-> "none", step |-> "idle", form |-> BlankForm, target |-> 0, case |-> 0,
     args |-> NoArgs, result |-> NoneResult, err |-> "none", response |-> "none"]

\* no request has arrived and the database is empty
AppIdle ==
    /\ cases = <<>>
    /\ details = <<>>
    /\ orderRows = <<>>
    /\ reqs = [r \in 1..NumRequests |-> IdleRequest]

\* no handler has constructed a scraper
ConcIdle ==
    /\ instances = <<>>
    /\ handlers = [r \in 1..NumRequests |-> [at |-> "idle", scraper |-> 0, tries |-> 0]]
    /\ touched = {}

\* no helper of utils.py has been called
UtilIdle ==
    /\ given = <<>>
    /\ validated = "unset"
    /\ sanitized = <<>>

RestIdle == ParseIdle /\ DownloadIdle /\ AppIdle /\ ConcIdle /\ UtilIdle

\* a CourtScraper right after __init__, max_retries as constructed
ScrapeInit(retries) ==
    /\ pc = "loop"
    /\ max_retries \in retries
    /\ attempt = 0
    /\ driver = 0
    /\ sessions = <<>>
    /\ crashed = FALSE
    /\ page = BlankPage
    /\ markup = BlankMarkup
    /\ result = NoneResult
    /\ setupCalls = 0
    /\ backoffs = 0
    /\ lastFail = "none"
    /\ stagesRun = <<>>
    /\ closeCalls = 0
    /\ quitRaised = FALSE
    /\ lastParse = NoneResult
    /\ setupFails = 0
    /\ cleanups = 0

Init == ScrapeInit(0..MaxRetriesBound) /\ RestIdle

\* range(self.max_retries) has another value
MoreAttempts_OneMore(a, m) == a <= m
MoreAttempts(a, m) == a < m

\* attempt == self.max_retries - 1
IsLastAttempt_Never(a, m) == FALSE
IsLastAttempt(a, m) == a = m - 1

\* _close_driver: the handle and the sessions after the call
CloseDriver_KeepOnRaise(d, sess, raises) ==
    IF d # 0
    THEN [driver |-> IF raises THEN d ELSE 0, sessions |-> [sess EXCEPT ![d] = @ + 1]]
    ELSE [driver |-> d, sessions |-> sess]

CloseDriver(d, sess, raises) ==
    IF d # 0
    THEN [driver |-> 0, sessions |-> [sess EXCEPT ![d] = @ + 1]]
    ELSE [driver |-> d, sessions |-> sess]

\* a call of _close_driver; raises: quit() raises
Close(raises) ==
    /\ driver' = CloseDriver(driver, sessions, raises).driver
    /\ sessions' = CloseDriver(driver, sessions, raises).sessions
    /\ closeCalls' = closeCalls + 1
    /\ quitRaised' = (driver # 0 /\ raises)
    /\ crashed' = FALSE

\* the stage record appended to the attempt's history
Ran(stage, ok) == Append(stagesRun, [stage |-> stage, sess |-> driver, ok |-> ok])

\* "continue" inside the try block: finally, then the next iteration
ContinueAttempt(raises, stage) ==
    /\ Close(raises)
    /\ attempt' = attempt + 1
    /\ pc' = "loop"
    /\ lastFail' = stage
    /\ stagesRun' = Ran(stage, FALSE)
    /\ page' = BlankPage
    /\ UNCHANGED <<max_retries, markup, result, setupCalls, setupFails, backoffs, cleanups>>

\* "return r" inside the try block: finally, then the return
ReturnResult(r, raises, stage, fail) ==
    /\ Close(raises)
    /\ result' = r
    /\ pc' = "done"
    /\ lastFail' = fail
    /\ stagesRun' = Ran(stage, fail = "none")
    /\ page' = BlankPage
    /\ UNCHANGED <<max_retries, attempt, markup, setupCalls, setupFails, backoffs, cleanups>>

\* an exception reaches the except clauses of the try block
ExceptPath(msg, raises, stage) ==
    IF IsLastAttempt(attempt, max_retries)
    THEN ReturnResult(FailureResult(msg), raises, stage, "exception")
    ELSE /\ Close(raises)
         /\ pc' = "backoff"
         /\ lastFail' = "exception"
         /\ stagesRun' = Ran(stage, FALSE)
         /\ page' = BlankPage
         /\ UNCHANGED <<max_retries, attempt, markup, result, setupCalls, setupFails, backoffs,
                        cleanups>>

StageSteps == {"navigate", "fill", "captcha", "submit", "parse"}

\* the top of the loop body: self._setup_driver(), and "continue" if it fails.
\*   ok          the browser starts and the script call succeeds
\*   fail_early  an exception before webdriver.Chrome returns
\*   fail_late   the browser starts, then execute_script raises
SetupDriver ==
    /\ pc = "loop"
    /\ MoreAttempts(attempt, max_retries)
    /\ setupCalls' = setupCalls + 1
    /\ \E outcome \in {"ok", "fail_early", "fail_late"} :
        LET new == Len(sessions) + 1 IN
        CASE outcome = "ok" ->
               /\ sessions' = Append(sessions, 0)
               /\ driver' = new
               /\ pc' = "navigate"
               /\ stagesRun' = <<[stage |-> "acquire", sess |-> new, ok |-> TRUE]>>
               /\ UNCHANGED <<attempt, lastFail, setupFails>>
          [] outcome = "fail_early" ->
               /\ UNCHANGED <<sessions, driver>>
               /\ attempt' = attempt + 1
               /\ pc' = "loop"
               /\ lastFail' = "acquire"
               /\ setupFails' = setupFails + 1
               /\ stagesRun' = <<[stage |-> "acquire", sess |-> 0, ok |-> FALSE]>>
          [] outcome = "fail_late" ->
               /\ sessions' = Append(sessions, 0)
               /\ driver' = new
               /\ attempt' = attempt + 1
               /\ pc' = "loop"
               /\ lastFail' = "acquire"
               /\ setupFails' = setupFails + 1
               /\ stagesRun' = <<[stage |-> "acquire", sess |-> new, ok |-> FALSE]>>
    /\ crashed' = FALSE
    /\ markup' = BlankMarkup
    /\ lastParse' = NoneResult
    /\ UNCHANGED <<max_retries, page, result, backoffs, closeCalls, quitRaised, cleanups>>
    /\ UNCHANGED restVars

\* the loop is over: the final return
ReturnExhausted ==
    /\ pc = "loop"
    /\ ~MoreAttempts(attempt, max_retries)
    /\ result' = ExhaustedResult
    /\ pc' = "done"
    /\ UNCHANGED <<max_retries, attempt, driver, sessions, crashed, page, markup, setupCalls,
                   backoffs, lastFail, stagesRun, closeCalls, quitRaised, lastParse, setupFails,
                   cleanups>>
    /\ UNCHANGED restVars

\* driver.get and the wait for the body element
Navigate ==
    /\ pc = "navigate"
    /\ \/ /\ ~crashed
          /\ \E p \in FormPages : page' = p
          /\ pc' = "fill"
          /\ stagesRun' = Ran("navigate", TRUE)
          /\ UNCHANGED <<max_retries, attempt, driver, sessions, crashed, markup, result,
                         setupCalls, backoffs, lastFail, closeCalls, quitRaised, setupFails,
                           cleanups>>
       \/ \E raises \in BOOLEAN : ExceptPath(ErrElements, raises, "navigate")
       \/ \E raises \in BOOLEAN : ExceptPath(ErrDriver, raises, "navigate")
    /\ UNCHANGED lastParse
    /\ UNCHANGED restVars

\* _fill_search_form_enhanced and the test of its return value
FillForm ==
    /\ pc = "fill"
    /\ LET r == FillSearchFormEnhanced(page, Query, crashed) IN
       IF r.ok
       THEN /\ page' = r.page
            /\ pc' = "captcha"
            /\ stagesRun' = Ran("fill", TRUE)
            /\ UNCHANGED <<max_retries, attempt, driver, sessions, crashed, markup, result,
                           setupCalls, backoffs, lastFail, closeCalls, quitRaised, setupFails,
                           cleanups>>
       ELSE \E raises \in BOOLEAN : ContinueAttempt(raises, "fill")
    /\ UNCHANGED lastParse
    /\ UNCHANGED restVars

\* _handle_captcha_enhanced and the test of its return value
HandleCaptcha_NoContinue ==
    /\ pc = "captcha"
    /\ LET r == HandleCaptchaEnhanced(page, crashed) IN
       /\ page' = r.page
       /\ pc' = "submit"
       /\ stagesRun' = Ran("captcha", r.ok)
       /\ UNCHANGED <<max_retries, attempt, driver, sessions, crashed, markup, result,
                      setupCalls, backoffs, lastFail, closeCalls, quitRaised, setupFails,
                      cleanups>>
    /\ UNCHANGED lastParse
    /\ UNCHANGED restVars

HandleCaptcha ==
    /\ pc = "captcha"
    /\ LET r == HandleCaptchaEnhanced(page, crashed) IN
       IF r.ok
       THEN /\ page' = r.page
            /\ pc' = "submit"
            /\ stagesRun' = Ran("captcha", TRUE)
            /\ UNCHANGED <<max_retries, attempt, driver, sessions, crashed, markup, result,
                           setupCalls, backoffs, lastFail, closeCalls, quitRaised, setupFails,
                           cleanups>>
       ELSE \E raises \in BOOLEAN : ContinueAttempt(raises, "captcha")
    /\ UNCHANGED lastParse
    /\ UNCHANGED restVars

\* _submit_form, the test of its return value and the wait for the answer
Submit ==
    /\ pc = "submit"
    /\ IF SubmitForm(page, crashed)
       THEN /\ \E m \in ResultPages : markup' = m
            /\ page' = BlankPage
            /\ pc' = "parse"
            /\ stagesRun' = Ran("submit", TRUE)
            /\ UNCHANGED <<max_retries, attempt, driver, sessions, crashed, result,
                           setupCalls, backoffs, lastFail, closeCalls, quitRaised, setupFails,
                           cleanups>>
       ELSE \E raises \in BOOLEAN : ContinueAttempt(raises, "submit")
    /\ UNCHANGED lastParse
    /\ UNCHANGED restVars

\* driver.page_source, _parse_case_results_enhanced and the handling of its
\* result; dies: the browser dies after page_source was read
Parse ==
    /\ pc = "parse"
    /\ \E raises \in BOOLEAN :
        IF crashed
        THEN ExceptPath(ErrDriver, raises, "parse") /\ UNCHANGED lastParse
        ELSE \E dies \in BOOLEAN :
             LET r == ParseCaseResultsEnhanced(markup, markup, dies) IN
             /\ lastParse' = r
             /\ IF r.success THEN ReturnResult(r, raises, "parse", "none")
                ELSE IF IsLastAttempt(attempt, max_retries)
                     THEN ReturnResult(r, raises, "parse", "parse")
                     ELSE ContinueAttempt(raises, "parse")
    /\ UNCHANGED restVars

\* the "wait before retry" after the try statement
Backoff ==
    /\ pc = "backoff"
    /\ backoffs' = IF attempt < max_retries - 1 THEN backoffs + 1 ELSE backoffs
    /\ attempt' = attempt + 1
    /\ pc' = "loop"
    /\ UNCHANGED <<max_retries, driver, sessions, crashed, page, markup, result, setupCalls,
                   lastFail, stagesRun, closeCalls, quitRaised, lastParse, setupFails, cleanups>>
    /\ UNCHANGED restVars

\* the browser process of the session dies
BrowserCrash ==
    /\ pc \in StageSteps
    /\ ~crashed
    /\ crashed' = TRUE
    /\ UNCHANGED <<pc, max_retries, attempt, driver, sessions, page, markup, result, setupCalls,
                   backoffs, lastFail, stagesRun, closeCalls, quitRaised, lastParse, setupFails,
                   cleanups>>
    /\ UNCHANGED restVars

\* the finally clause of the caller: scraper_instance._close_driver()
CallerCleanup ==
    /\ pc = "done"
    /\ cleanups < MaxCleanup
    /\ \E raises \in BOOLEAN : Close(raises)
    /\ cleanups' = cleanups + 1
    /\ UNCHANGED <<pc, max_retries, attempt, page, markup, result, setupCalls, backoffs,
                   lastFail, stagesRun, lastParse, setupFails>>
    /\ UNCHANGED restVars

Next ==
    \/ SetupDriver
    \/ ReturnExhausted
    \/ Navigate
    \/ FillForm
    \/ HandleCaptcha
    \/ Submit
    \/ Parse
    \/ Backoff
    \/ BrowserCrash
    \/ CallerCleanup

Spec == Init /\ [][Next]_vars

TypeOK ==
    /\ pc \in {"loop", "navigate", "fill", "captcha", "submit", "parse", "backoff", "done"}
    /\ attempt \in 0..(MaxRetriesBound + 1)
    /\ driver \in 0..Len(sessions)

(***************************************************************************)
(* Properties                                                              *)
(***************************************************************************)
IsSuccessResult(r) == DOMAIN r = SuccessKeys /\ r.success = TRUE
IsFailureResult(r) == DOMAIN r = FailureKeys /\ r.success = FALSE
Returned == pc = "done"

\* C1: whatever the stage outcomes and max_retries >= 0, what scrape_case_data
\* returns is exactly one of a success record and a failure record.
C1_ExactlyOneResult ==
    Returned =>
        /\ IsSuccessResult(result) \/ IsFailureResult(result)
        /\ ~(IsSuccessResult(result) /\ IsFailureResult(result))
        /\ IsSuccessResult(result) => "error" \notin DOMAIN result
        /\ IsFailureResult(result) => DOMAIN result \cap (SuccessKeys \ {"success"}) = {}

C1_Witness ==
    /\ Returned
    /\ IsSuccessResult(result)
    /\ setupCalls >= 2
    /\ setupFails >= 1

AllQuit(except) == \A k \in 1..Len(sessions) : k # except => sessions[k] >= 1

\* C2: every browser session an attempt started is quit before the next
\* attempt acquires one and before scrape_case_data returns.
C2_SessionQuitPerAttempt ==
    /\ pc \in StageSteps => AllQuit(driver)
    /\ Returned /\ cleanups = 0 => AllQuit(0)

\* the position of a step in the loop body, counted from its end
StepsLeft ==
    CASE pc = "loop" -> 7
      [] pc = "navigate" -> 6
      [] pc = "fill" -> 5
      [] pc = "captcha" -> 4
      [] pc = "submit" -> 3
      [] pc = "parse" -> 2
      [] pc = "backoff" -> 1
      [] pc = "done" -> 0

\* the positions from which the loop of scrape_case_data goes on
LoopSteps == {"loop", "backoff"} \cup StageSteps

\* a bound on the work scrape_case_data and the caller's cleanup have left:
\* the iterations left, then the steps left in the iteration's body, then
\* whether the session's browser can still die
Rank ==
    IF Returned THEN MaxCleanup - cleanups
    ELSE (max_retries + 1 - attempt) * 100 + 2 * StepsLeft + (IF crashed THEN 0 ELSE 1)

\* C3: attempt k+1 starts only after k failed attempts with k < max_retries;
\* a driver that never starts gives exactly max_retries attempts and a
\* Failure; the first successful parse is returned at once; the call ends:
\* before it has returned it is at a step of the loop, and every step lowers
\* a non-negative bound on the work left.
C3_RetryBound ==
    /\ [](setupCalls <= max_retries)
    /\ [][setupCalls' = setupCalls + 1 =>
            /\ setupCalls < max_retries
            /\ result = NoneResult
            /\ setupCalls > 0 => lastFail # "none"]_vars
    /\ [](Returned /\ setupFails = setupCalls =>
            setupCalls = max_retries /\ IsFailureResult(result))
    /\ [](lastParse # NoneResult /\ IsSuccessResult(lastParse) =>
            Returned /\ result = lastParse)
    /\ [](Rank >= 0 /\ (~Returned => pc \in LoopSteps))
    /\ [][Rank' < Rank]_vars

C3_Witness ==
    /\ Returned
    /\ max_retries >= 2
    /\ setupFails = max_retries
    /\ setupCalls = max_retries

\* C4: a backoff sleep separates every two consecutive attempts and none
\* follows the final attempt.
C4_BackoffBetweenAttempts ==
    (pc \in StageSteps \/ Returned) /\ setupCalls > 0 => backoffs = setupCalls - 1

\* the stage an error message names
StageOfError(err) ==
    CASE err \in {ErrNoRecord, ErrNoTable, ErrNoRows} -> "parse"
      [] err \in {ErrElements, ErrDriver} -> "exception"
      [] OTHER -> "none"

\* C5: when every attempt failed, the failure returned names what failed in
\* the final attempt.
C5_LastFailureSurfaced ==
    Returned /\ IsFailureResult(result) /\ setupCalls > 0 =>
        StageOfError(result.error) = lastFail

\* C6: a no-record parse result of the final attempt is returned unchanged,
\* not as the generic exhaustion failure.
C6_NoRecordReturnedAsIs ==
    Returned /\ lastFail = "parse" /\ lastParse = FailureResult(ErrNoRecord) =>
        result = FailureResult(ErrNoRecord) /\ result # ExhaustedResult

C6_Witness ==
    /\ Returned
    /\ attempt >= 1
    /\ lastParse = FailureResult(ErrNoRecord)
    /\ result = lastParse

StageOrder == <<"acquire", "navigate", "fill", "captcha", "submit", "parse">>

\* C7: the stages of an attempt run in the order acquire, navigate, fill,
\* CAPTCHA, submit, parse in one session, each only after the one before it
\* succeeded.
C7_StageOrder ==
    /\ Len(stagesRun) <= Len(StageOrder)
    /\ \A i \in 1..Len(stagesRun) :
        /\ stagesRun[i].stage = StageOrder[i]
        /\ stagesRun[i].sess = stagesRun[1].sess
        /\ i < Len(stagesRun) => stagesRun[i].ok
    /\ pc \in StageSteps => /\ Len(stagesRun) > 0
                            /\ stagesRun[Len(stagesRun)].ok
                            /\ StageOrder[Len(stagesRun) + 1] = pc
                            /\ stagesRun[1].sess = driver

C7_Witness ==
    /\ Len(stagesRun) = Len(StageOrder)
    /\ stagesRun[Len(stagesRun)].ok
    /\ attempt >= 1

\* no candidate element renders a numeric text of 3 or more characters and
\* no span of the page source holds 3 to 6 digits
NoChallengeExposed(p) ==
    \A i \in 1..Len(p.texts) :
        LET e == p.texts[i]
            shown == IF e.visible THEN Strip(e.text) ELSE <<>>
            candidate == e.tag = "span" \/ e.class = "captcha" \/ e.id = "captcha"
        IN /\ ~(candidate /\ IsDigit(shown) /\ Len(shown) >= 3)
           /\ ~(e.tag = "span" /\ IsDigit(e.text) /\ Len(e.text) \in 3..6)

\* C8: with no numeric challenge exposed, the CAPTCHA stage writes to no
\* input and the attempt goes on to the submit stage.
C8_NoCaptchaProceeds ==
    [][pc = "captcha" /\ pc' # "captcha" /\ NoChallengeExposed(page) =>
          pc' = "submit" /\ page' = page]_vars

C8_Witness ==
    /\ pc = "submit"
    /\ NoChallengeExposed(page)
    /\ Len(page.inputs) = 2
    /\ page.texts # <<>>

\* C9: _close_driver does nothing without a session; with one it calls quit
\* once and clears the handle, also when quit raises; no session is ever quit
\* twice, whatever the number of calls.
C9_CloseIdempotent ==
    /\ [](\A k \in 1..Len(sessions) : sessions[k] <= 1)
    /\ [][closeCalls' = closeCalls + 1 =>
            /\ driver' = 0
            /\ driver = 0 => sessions' = sessions
            /\ driver # 0 => sessions' = [sessions EXCEPT ![driver] = 1]]_vars

C9_Witness ==
    /\ cleanups >= 2
    /\ closeCalls >= 3
    /\ driver = 0
    /\ Len(sessions) >= 1
    /\ \A k \in 1..Len(sessions) : sessions[k] = 1

\* some stretch of s reads as one of the no-record phrases when letter case
\* is ignored
HasPhraseAnyCase(s) ==
    \E ph \in NoRecordPhrases : \E i \in 1..Len(s) :
        /\ i + Len(ph) - 1 <= Len(s)
        /\ \A k \in 1..Len(ph) : UpperChar(s[i + k - 1]) = UpperChar(ph[k])

\* C10: markup holding a no-record phrase in any letter case parses to the
\* no-record failure, whatever table, rows and links it also holds.
C10_NoRecordWins ==
    lastParse # NoneResult /\ HasPhraseAnyCase(markup.text) =>
        lastParse = FailureResult(ErrNoRecord)

C10_Witness ==
    /\ lastParse = FailureResult(ErrNoRecord)
    /\ ~HasNoRecordPhrase_CaseSensitive(markup.text)
    /\ markup.nrows >= 2
    /\ PdfUrls(ColLinks(markup.cols)) # <<>>

(***************************************************************************)
(* Order links                                                             *)
(***************************************************************************)
\* the pdf_url entries of a result's orders, in list order
OrderUrls(r) == [i \in 1..Len(r.orders) |-> r.orders[i].pdf_url]

\* position of the first occurrence of u in the sequence f
FirstPos(f, u) == CHOOSE i \in 1..Len(f) : f[i] = u /\ \A j \in 1..(i-1) : f[j] # u

\* urls holds each element of found exactly once, ordered by first occurrence
FirstSeenOrder(urls, found) ==
    /\ \A i, j \in 1..Len(urls) : i # j => urls[i] # urls[j]
    /\ \A i \in 1..Len(found) : \E j \in 1..Len(urls) : urls[j] = found[i]
    /\ \A j \in 1..Len(urls) : \E i \in 1..Len(found) : found[i] = urls[j]
    /\ \A i, j \in 1..Len(urls) : i < j => FirstPos(found, urls[i]) < FirstPos(found, urls[j])

\* C11: the order links of a parse result hold each resolved absolute url the
\* extraction found exactly once, in the order of first occurrence.
C11_OrdersDeduplicated ==
    (pc = "done" /\ IsSuccessResult(lastParse)) =>
        \E dies \in BOOLEAN :
            FirstSeenOrder(OrderUrls(lastParse),
                           FoundPdfs(markup, markup.cols, markup, dies))

\* a success whose row repeats a link: three links found, two kept
C11_Witness ==
    /\ pc = "done"
    /\ IsSuccessResult(lastParse)
    /\ Len(FoundPdfs(markup, markup.cols, markup, FALSE)) = 3
    /\ OrderUrls(lastParse) = <<BaseUrl \o PdfA, PdfB>>

(***************************************************************************)
(* _parse_case_results_enhanced called twice on one page source by one     *)
(* healthy session, and _parse_date (app.py) on the dates it returns       *)
(***************************************************************************)
OneDateText == <<"1","5","/","0","3","/","2","0","2","3">>
BadFirstText == <<"3","2","/","1","3","/","2","0","2","3"," ","2","0","/","0","6","/","2","0","2","3">>
BadSecondText == <<"1","5","/","0","3","/","2","0","2","3"," ","3","1","/","0","2","/","2","0","2","3">>

\* rows whose listing column holds one date or a date no calendar has
DateRowConfigs ==
    { << Cell(<<"1">>, <<>>), Cell(<<"W","P">>, <<>>), Cell(PartiesText, <<>>), Cell(t, <<>>) >> :
        t \in {OneDateText, BadFirstText, BadSecondText} }

\* pages with .pdf anchors outside the row only, and with an orders link to a
\* page that lists no file
ScanLinkShapes ==
    { [otherLinks |-> <<PdfB, PdfA, PdfB>>, ordersLink |-> FALSE, ordersPdfs |-> <<>>],
      [otherLinks |-> <<PdfB>>, ordersLink |-> TRUE, ordersPdfs |-> <<>>] }

ParsePages ==
    ResultPages \cup
    { [text |-> <<"R","e","s","u","l","t","s">>, hasTable |-> TRUE, nrows |-> 2, cols |-> c,
       otherLinks |-> l.otherLinks, ordersLink |-> l.ordersLink, ordersPdfs |-> l.ordersPdfs] :
        c \in DateRowConfigs, l \in LinkShapes \cup ScanLinkShapes }

\* the page behind the orders link: it lists the order files; again: it has an
\* orders link of its own, to itself
OrdersPage(from, again) ==
    [text |-> <<>>, hasTable |-> TRUE, nrows |-> 1, cols |-> <<>>,
     otherLinks |-> from.ordersPdfs, ordersLink |-> again, ordersPdfs |-> from.ordersPdfs]

\* the pages the session may show after _parse_case_results_enhanced(source)
\* was called while it showed cur
ShownAfterParse(source, cur) ==
    IF IsFailureResult(ParseCaseResultsEnhanced(source, cur, FALSE)) THEN {cur}
    ELSE IF OrdersClicked(source.cols, cur, FALSE)
         THEN {OrdersPage(cur, again) : again \in BOOLEAN}
         ELSE {cur}

DigitChars == <<"0","1","2","3","4","5","6","7","8","9">>

\* int(s) of a text of decimal digits
RECURSIVE TextToNat(_)
TextToNat(s) ==
    IF s = <<>> THEN 0
    ELSE 10 * TextToNat(SubSeq(s, 1, Len(s) - 1)) + (IndexIn(s[Len(s)], DigitChars) - 1)

\* the days of month m of year y (0 when there is no such month)
DaysInMonth(y, m) ==
    IF m \in {1, 3, 5, 7, 8, 10, 12} THEN 31
    ELSE IF m \in {4, 6, 9, 11} THEN 30
    ELSE IF m = 2 THEN (IF y % 4 = 0 /\ (y % 100 # 0 \/ y % 400 = 0) THEN 29 ELSE 28)
    ELSE 0

\* datetime(y, m, d) exists
IsCalendarDate(y, m, d) == y >= 1 /\ d >= 1 /\ d <= DaysInMonth(y, m)

\* _parse_date(date_string): the date as <<year, month, day>>, PyNone for None
ParseDate(date_string) ==
    IF date_string = PyNone \/ date_string = <<>> \/ Len(date_string) # 10 THEN PyNone
    ELSE IF Contains(date_string, <<"-">>)
    THEN LET ys == SubSeq(date_string, 1, 4)
             ms == SubSeq(date_string, 6, 7)
             ds == SubSeq(date_string, 9, 10)
         IN IF /\ date_string[5] = "-" /\ date_string[8] = "-"
               /\ IsDigit(ys) /\ IsDigit(ms) /\ IsDigit(ds)
               /\ IsCalendarDate(TextToNat(ys), TextToNat(ms), TextToNat(ds))
            THEN <<TextToNat(ys), TextToNat(ms), TextToNat(ds)>>
            ELSE PyNone
    ELSE IF Contains(date_string, <<"/">>)
    THEN LET ds == SubSeq(date_string, 1, 2)
             ms == SubSeq(date_string, 4, 5)
             ys == SubSeq(date_string, 7, 10)
         IN IF /\ date_string[3] = "/" /\ date_string[6] = "/"
               /\ IsDigit(ys) /\ IsDigit(ms) /\ IsDigit(ds)
               /\ IsCalendarDate(TextToNat(ys), TextToNat(ms), TextToNat(ds))
            THEN <<TextToNat(ys), TextToNat(ms), TextToNat(ds)>>
            ELSE PyNone
    ELSE PyNone

ParseStart ==
    /\ ppc = "first"
    /\ html \in ParsePages
    /\ live = html
    /\ firstParse = NoneResult
    /\ secondParse = NoneResult
    /\ raising = "none"

ParseInit == ScrapeInit({0}) /\ ParseStart /\ DownloadIdle /\ AppIdle /\ ConcIdle /\ UtilIdle

\* html = driver.page_source was read; the first call
ParseFirst ==
    /\ ppc = "first"
    /\ firstParse' = ParseCaseResultsEnhanced(html, live, FALSE)
    /\ live' \in ShownAfterParse(html, live)
    /\ ppc' = "again"
    /\ UNCHANGED <<html, secondParse, raising, scrapeVars, downloadVars, appVars, concVars, utilVars>>

\* the second call, on the same html
ParseAgain ==
    /\ ppc = "again"
    /\ secondParse' = ParseCaseResultsEnhanced(html, live, FALSE)
    /\ live' \in ShownAfterParse(html, live)
    /\ ppc' = "parsed"
    /\ UNCHANGED <<html, firstParse, raising, scrapeVars, downloadVars, appVars, concVars, utilVars>>

ParseNext == ParseFirst \/ ParseAgain

ParseSpec == ParseInit /\ [][ParseNext]_vars

\* the text of the listing column of the first data row
ListingOf(source) == IF Len(source.cols) > 3 THEN Strip(source.cols[4].text) ELSE <<>>

\* the source has a results table with a data row and no "no record" phrase
HasDataRow(source) == source.hasTable /\ source.nrows >= 2 /\ ~HtmlHasNoRecordPhrase(source)

\* iso is the DD/MM/YYYY text d written as YYYY-MM-DD
IsIsoOf(iso, d) ==
    /\ Len(iso) = 10
    /\ SubSeq(iso, 1, 4) = SubSeq(d, 7, 10) /\ iso[5] = "-"
    /\ SubSeq(iso, 6, 7) = SubSeq(d, 4, 5) /\ iso[8] = "-"
    /\ SubSeq(iso, 9, 10) = SubSeq(d, 1, 2)

Iso20230315 == <<"2","0","2","3","-","0","3","-","1","5">>
Iso20230620 == <<"2","0","2","3","-","0","6","-","2","0">>

\* C12: the first DD/MM/YYYY substring of the listing column becomes
\* filing_date and the second next_hearing, both rewritten as YYYY-MM-DD
\* (15/03/2023 becomes 2023-03-15); with exactly one date next_hearing is
\* unset, with none both are unset, and the parse is a Success all the same.
C12_DatesNormalized ==
    (ppc # "first" /\ HasDataRow(html)) =>
        LET dates == FindDates(ListingOf(html), 1) IN
        /\ IsSuccessResult(firstParse)
        /\ IF Len(dates) > 0 THEN IsIsoOf(firstParse.filing_date, dates[1])
                             ELSE firstParse.filing_date = PyNone
        /\ IF Len(dates) > 1 THEN IsIsoOf(firstParse.next_hearing, dates[2])
                             ELSE firstParse.next_hearing = PyNone
        /\ (ListingOf(html) = ListingText =>
                firstParse.filing_date = Iso20230315 /\ firstParse.next_hearing = Iso20230620)
        /\ (ListingOf(html) = OneDateText =>
                firstParse.filing_date = Iso20230315 /\ firstParse.next_hearing = PyNone)

\* a listing column with exactly one date was parsed
C12_Witness ==
    /\ ppc = "parsed"
    /\ ListingOf(html) = OneDateText
    /\ IsSuccessResult(firstParse)
    /\ firstParse.filing_date = Iso20230315
    /\ firstParse.next_hearing = PyNone

\* the field a parse result holds for a date text: unset when no calendar has
\* that date
FieldFor(d) == IF ParseDate(d) = PyNone THEN PyNone ELSE ToIsoDate(d)

\* C13: a DD/MM/YYYY-shaped text that is no calendar date (month 13, day 32)
\* leaves its own field of the parse result unset, the other date is still
\* populated, and the parse is still a Success.
C13_InvalidDateUnset ==
    (ppc # "first" /\ HasDataRow(html)) =>
        LET dates == FindDates(ListingOf(html), 1) IN
        /\ IsSuccessResult(firstParse)
        /\ (Len(dates) > 0 => firstParse.filing_date = FieldFor(dates[1]))
        /\ (Len(dates) > 1 => firstParse.next_hearing = FieldFor(dates[2]))

\* C14: parsing the same page source twice gives identical results, the order
\* links included; the session showing another page after the first call does
\* not change what the second returns.
C14_ParseIdempotent ==
    ppc = "parsed" => secondParse = firstParse

(***************************************************************************)
(* CourtScraper.download_pdf                                               *)
(*   a response: [outcome, ctype, content]                                 *)
(*     outcome  "ok", or the exception requests.get / raise_for_status     *)
(*              raises: "Timeout", "ConnectionError", "HTTPError"          *)
(*     ctype    the content-type header, <<>> when the header is missing   *)
(*     content  response.content                                           *)
(***************************************************************************)
PdfType == <<"a","p","p","l","i","c","a","t","i","o","n","/","p","d","f">>
HtmlType == <<"t","e","x","t","/","h","t","m","l">>
ContentTypes ==
    { PdfType,
      <<"A","p","p","l","i","c","a","t","i","o","n","/","P","D","F">>,
      PdfType \o <<";"," ","q","=","1">>,
      <<" ">> \o PdfType,
      HtmlType,
      <<>> }
Bodies == { <<"%","P","D","F","-","1">>, <<"<","h","t","m","l",">">> }

Responses ==
    { [outcome |-> "ok", ctype |-> t, content |-> b] : t \in ContentTypes, b \in Bodies }
    \cup { [outcome |-> e, ctype |-> <<>>, content |-> <<>>] : e \in {"Timeout", "ConnectionError"} }
    \cup { [outcome |-> "HTTPError", ctype |-> t, content |-> b] :
             t \in {PdfType, HtmlType}, b \in Bodies }

\* the classes "except Exception" catches
CaughtExceptions == {"Timeout", "ConnectionError", "HTTPError"}

\* download_pdf(pdf_url) meeting the response resp: the value returned
\* (PyNone for None) and the exception that leaves the call ("none" if none)
DownloadPdf_AnyType(resp) ==
    IF resp.outcome # "ok"
    THEN [value |-> PyNone, raised |-> "none"]
    ELSE [value |-> resp.content, raised |-> "none"]

DownloadPdf(resp) ==
    IF resp.outcome # "ok"
    THEN IF resp.outcome \in CaughtExceptions
         THEN [value |-> PyNone, raised |-> "none"]
         ELSE [value |-> PyNone, raised |-> resp.outcome]
    ELSE IF StartsWith(Lower(resp.ctype), PdfType)
         THEN [value |-> resp.content, raised |-> "none"]
         ELSE [value |-> PyNone, raised |-> "none"]

DownloadInit == ScrapeInit({0}) /\ ParseIdle /\ DownloadIdle /\ AppIdle /\ ConcIdle /\ UtilIdle

\* one call of download_pdf
DownloadCall ==
    /\ Len(downloads) < MaxDownloads
    /\ \E resp \in Responses :
          downloads' = Append(downloads, [resp |-> resp, out |-> DownloadPdf(resp)])
    /\ UNCHANGED <<localPaths, files, served, scrapeVars, parseVars, appVars, concVars, utilVars>>

DownloadNext == DownloadCall

DownloadSpec == DownloadInit /\ [][DownloadNext]_vars

\* the declared content type begins with application/pdf, whatever the case
DeclaresPdf(resp) ==
    /\ Len(resp.ctype) >= Len(PdfType)
    /\ \A i \in 1..Len(PdfType) : LowerChar(resp.ctype[i]) = PdfType[i]

\* C15: download_pdf returns the response bytes only if the request succeeded
\* and the declared content type begins with application/pdf, compared without
\* regard to case; for any other content type, an HTTP error status, a timeout
\* or a network error it returns no bytes, and it never raises.
C15_BytesOnlyForPdf ==
    \A i \in 1..Len(downloads) :
        LET d == downloads[i] IN
        /\ d.out.raised = "none"
        /\ IF d.resp.outcome = "ok" /\ DeclaresPdf(d.resp)
           THEN d.out.value = d.resp.content
           ELSE d.out.value = PyNone

\* a PDF declared in other case was returned, a text/html answer was not
C15_Witness ==
    /\ Len(downloads) = 2
    /\ downloads[1].resp.outcome = "ok"
    /\ downloads[1].resp.ctype # PdfType
    /\ downloads[1].out.value = downloads[1].resp.content
    /\ downloads[2].resp.outcome = "ok"
    /\ downloads[2].resp.ctype = HtmlType
    /\ downloads[2].out.value = PyNone

\* the response was received and declares something else than a PDF
IsNotAPdf(resp) == resp.outcome = "ok" /\ ~DeclaresPdf(resp)
\* the request failed: network error, timeout or HTTP error status
IsDownloadFailed(resp) == resp.outcome # "ok"

\* C16: a response that is not a PDF is reported as an outcome the caller can
\* tell apart from the outcome of a network or HTTP error.
C16_NotAPdfDistinct ==
    \A i, j \in 1..Len(downloads) :
        (IsNotAPdf(downloads[i].resp) /\ IsDownloadFailed(downloads[j].resp))
            => downloads[i].out # downloads[j].out

(***************************************************************************)
(* The request handlers of app.py that run a scrape: search_case,          *)
(* api_search_case, retry_case, with _process_scrape_result and            *)
(* validate_case_number (utils.py).  A handler takes two steps: up to the  *)
(* commit before the scrape, and from the return of scrape_case_data to    *)
(* the response; other requests may run in between.                        *)
(***************************************************************************)
\* datetime.now().year
CurrentYear == 2026
MinYear == 1950

\* a value that is not a str: the int 123
PyNumber == <<"123 (int)">>

\* isinstance(v, str)
IsStr(v) == v \notin {PyNone, PyNumber}

\* validate_case_number(case_number): re.match(r'^[0-9]+[\/\-]?[0-9]*$') on the
\* stripped text, and 1 to 50 characters
ValidateCaseNumber_NoLengthCap(case_number) ==
    IF case_number = PyNone \/ case_number = <<>> \/ ~IsStr(case_number) THEN FALSE
    ELSE LET t == Strip(case_number) IN
         \E k \in 1..Len(t) :
               /\ IsDigit(SubSeq(t, 1, k))
               /\ \/ k = Len(t)
                  \/ /\ t[k + 1] \in {"/", "-"}
                     /\ \A i \in (k + 2)..Len(t) : t[i] \in Digits

ValidateCaseNumber(case_number) ==
    IF case_number = PyNone \/ case_number = <<>> \/ ~IsStr(case_number) THEN FALSE
    ELSE LET t == Strip(case_number) IN
         /\ \E k \in 1..Len(t) :
               /\ IsDigit(SubSeq(t, 1, k))
               /\ \/ k = Len(t)
                  \/ /\ t[k + 1] \in {"/", "-"}
                     /\ \A i \in (k + 2)..Len(t) : t[i] \in Digits
         /\ Len(t) >= 1
         /\ Len(t) <= 50

\* int(text) of a str: [ok, val]; ok = FALSE stands for ValueError
PyInt(text) ==
    LET t == Strip(text)
        signed == Len(t) > 0 /\ t[1] \in {"+", "-"}
        digits == IF signed THEN Tail(t) ELSE t
    IN IF IsDigit(digits)
       THEN [ok |-> TRUE,
             val |-> IF signed /\ t[1] = "-" THEN 0 - TextToNat(digits) ELSE TextToNat(digits)]
       ELSE [ok |-> FALSE, val |-> 0]

\* the three fields after .strip()
Fields(form) ==
    [case_type |-> Strip(form.case_type), case_number |-> Strip(form.case_number),
     filing_year |-> Strip(form.filing_year)]

\* the validation of search_case on the stripped fields: "ok", or the
\* message the request is turned away with
SearchCheck_SkipsNumber(f) ==
    IF f.case_type = <<>> \/ f.case_number = <<>> \/ f.filing_year = <<>>
    THEN "All fields are required"
    ELSE IF ~PyInt(f.filing_year).ok THEN "Invalid filing year format"
    ELSE IF PyInt(f.filing_year).val < MinYear \/ PyInt(f.filing_year).val > CurrentYear
         THEN "Filing year must be between"
    ELSE "ok"

SearchCheck(f) ==
    IF f.case_type = <<>> \/ f.case_number = <<>> \/ f.filing_year = <<>>
    THEN "All fields are required"
    ELSE IF ~ValidateCaseNumber(f.case_number) THEN "Invalid case number format"
    ELSE IF ~PyInt(f.filing_year).ok THEN "Invalid filing year format"
    ELSE IF PyInt(f.filing_year).val < MinYear \/ PyInt(f.filing_year).val > CurrentYear
         THEN "Filing year must be between"
    ELSE "ok"

\* the validation of api_search_case
ApiCheck(f) ==
    IF f.case_type = <<>> \/ f.case_number = <<>> \/ f.filing_year = <<>>
    THEN "All fields are required"
    ELSE IF ~PyInt(f.filing_year).ok THEN "Invalid filing year"
    ELSE "ok"

\* Case.query.filter_by(...).first(): the id of the first row with the
\* triple (rows come in id order), 0 for None
FirstMatch(tbl, t, n, y) ==
    LET hit(i) == tbl[i].case_type = t /\ tbl[i].case_number = n /\ tbl[i].filing_year = y
    IN IF \E i \in 1..Len(tbl) : hit(i)
       THEN CHOOSE i \in 1..Len(tbl) : hit(i) /\ \A j \in 1..(i - 1) : ~hit(j)
       ELSE 0

\* Case(case_type=..., case_number=..., filing_year=year_int, status='pending')
NewCase(t, n, y) ==
    [case_type |-> t, case_number |-> n, filing_year |-> y, status |-> "pending",
     response_data |-> PyNone]

\* the arguments of a scrape_case_data call; year is the integer the
\* filing_year argument denotes (a str from the forms, an int from a Case)
ScrapeArgs(t, n, y) == [case_type |-> t, case_number |-> n, year |-> y]

\* json.dumps(scrape_result, default=str): the text, given by what it encodes
JsonDumps(res) == <<"json", res>>

\* 'success' if scrape_result.get('success') else 'failed'
StatusOf_Pending(res) == "pending"
StatusOf(res) == IF res.success THEN "success" ELSE "failed"

\* text[:n]
Truncate(text, n) == IF Len(text) > n THEN SubSeq(text, 1, n) ELSE text

\* the CaseDetail row built from a success result
DetailOf(id, res) ==
    [case_id |-> id,
     parties_plaintiff |-> Truncate(res.parties.plaintiff, 500),
     parties_defendant |-> Truncate(res.parties.defendant, 500),
     filing_date |-> ParseDate(res.filing_date),
     next_hearing_date |-> ParseDate(res.next_hearing),
     case_status |-> res.status]

\* the Order rows built from a success result
OrderRowsOf(id, res) ==
    [i \in 1..Len(res.orders) |->
        [case_id |-> id, order_date |-> ParseDate(res.orders[i].date),
         order_type |-> res.orders[i].type, pdf_url |-> Truncate(res.orders[i].pdf_url, 500)]]

\* case.response_data and case.status set from the result
Recorded_FirstRecord(tbl, id, res) ==
    [tbl EXCEPT ![1].response_data = JsonDumps(res), ![1].status = StatusOf(res)]

Recorded(tbl, id, res) ==
    [tbl EXCEPT ![id].response_data = JsonDumps(res), ![id].status = StatusOf(res)]

\* the database with the result and, for a success, its rows stored
Saved(db, id, res) ==
    IF res.success
    THEN [cases |-> Recorded(db.cases, id, res),
          details |-> Append(db.details, DetailOf(id, res)),
          orderRows |-> db.orderRows \o OrderRowsOf(id, res)]
    ELSE [db EXCEPT !.cases = Recorded(db.cases, id, res)]

\* search_case from "Update case with results" to its final commit.
\*   err = "save"    building or adding the rows raises: caught, warning flashed,
\*                   the commit stores what the session holds by then
\*   err = "commit"  db.session.commit() raises: nothing of the request is stored
SearchFinish(db, id, res, err) ==
    IF err = "commit" THEN db
    ELSE IF err = "save" THEN [db EXCEPT !.cases = Recorded(db.cases, id, res)]
    ELSE Saved(db, id, res)

\* _process_scrape_result(case, scrape_result): the database after it and the
\* value returned; any exception ends in db.session.rollback()
ProcessScrapeResult_FailOnError(db, id, res, err) ==
    IF err # "none"
    THEN [db |-> [db EXCEPT !.cases = [db.cases EXCEPT ![id].status = "failed"]], ok |-> FALSE]
    ELSE [db |-> Saved(db, id, res), ok |-> res.success]

ProcessScrapeResult(db, id, res, err) ==
    IF err # "none"
    THEN [db |-> db, ok |-> FALSE]
    ELSE [db |-> Saved(db, id, res), ok |-> res.success]

CaseTypeText == <<"W","P">>
NumberText == <<"1","2","/","3">>
YearText == <<"2","0","2","3">>
Form(t, n, y) == [case_type |-> t, case_number |-> n, filing_year |-> y]

\* the field values requests arrive with
Forms ==
    { Form(CaseTypeText, NumberText, YearText),
      Form(CaseTypeText, <<" ">> \o NumberText \o <<" ">>, YearText),
      Form(CaseTypeText, <<"a","b","c">>, YearText),
      Form(CaseTypeText, NumberText, <<"1","8","0","0">>),
      Form(CaseTypeText, NumberText, <<"3","0","0","0">>),
      Form(CaseTypeText, NumberText, <<"2","0","x","3">>),
      Form(<<>>, NumberText, YearText),
      Form(CaseTypeText, <<" ">>, YearText),
      Form(CaseTypeText, NumberText, <<>>) }

\* the database as init_db.py seeds it: a case scraped before and a failed one
SeededCases ==
    << [case_type |-> CaseTypeText, case_number |-> <<"7">>, filing_year |-> 2022,
        status |-> "success", response_data |-> PyNone],
       [case_type |-> CaseTypeText, case_number |-> NumberText, filing_year |-> 2023,
        status |-> "failed", response_data |-> PyNone] >>

CasePage ==
    [text |-> <<"R","e","s","u","l","t","s">>, hasTable |-> TRUE, nrows |-> 2,
     cols |-> << Cell(<<"1">>, <<>>), Cell(<<"W","P">>, <<>>), Cell(PartiesText, <<>>),
                 Cell(BadSecondText, <<PdfA, PdfB>>) >>,
     otherLinks |-> <<>>, ordersLink |-> FALSE, ordersPdfs |-> <<>>]

\* what scrape_case_data hands back to a handler
ScrapeResults ==
    { ParseCaseResultsEnhanced(CasePage, CasePage, FALSE),
      FailureResult(ErrNoRecord),
      ExhaustedResult }

\* the database errors a handler can meet when it stores res
DbErrors(res) == IF res.success THEN {"none", "save", "commit"} ELSE {"none", "commit"}

AppInit ==
    /\ ScrapeInit({0}) /\ ParseIdle /\ DownloadIdle /\ ConcIdle /\ UtilIdle
    /\ cases \in {<<>>, SeededCases}
    /\ details = <<>>
    /\ orderRows = <<>>
    /\ reqs = [r \in 1..NumRequests |-> IdleRequest]

\* search_case / api_search_case up to the scrape: validation (chk), the
\* lookup of a stored success, the pending Case and its commit
BeginSearch(r, kind, form, chk) ==
    LET f == Fields(form)
        year_int == PyInt(f.filing_year).val
        existing_case == FirstMatch(cases, f.case_type, f.case_number, year_int)
        req == [IdleRequest EXCEPT !.kind = kind, !.form = form]
    IN IF chk # "ok"
       THEN /\ reqs' = [reqs EXCEPT ![r] = [req EXCEPT !.step = "done", !.response = chk]]
            /\ UNCHANGED cases
       ELSE IF existing_case # 0 /\ cases[existing_case].status = "success"
       THEN /\ reqs' = [reqs EXCEPT ![r] = [req EXCEPT !.step = "done", !.case = existing_case,
                                                      !.response = "cached"]]
            /\ UNCHANGED cases
       ELSE /\ cases' = Append(cases, NewCase(f.case_type, f.case_number, year_int))
            /\ reqs' = [reqs EXCEPT ![r] =
                          [req EXCEPT !.step = "scraping", !.case = Len(cases) + 1,
                                      !.args = ScrapeArgs(f.case_type, f.case_number, year_int)]]

\* POST /search arrives
SearchCase(r) ==
    /\ reqs[r].step = "idle"
    /\ \E form \in Forms : BeginSearch(r, "search", form, SearchCheck(Fields(form)))
    /\ UNCHANGED <<details, orderRows, scrapeVars, parseVars, downloadVars, concVars, utilVars>>

\* POST /api/search arrives
ApiSearchCase(r) ==
    /\ reqs[r].step = "idle"
    /\ \E form \in Forms : BeginSearch(r, "api", form, ApiCheck(Fields(form)))
    /\ UNCHANGED <<details, orderRows, scrapeVars, parseVars, downloadVars, concVars, utilVars>>

\* GET /retry-case/<case_id> arrives
RetryCase(r) ==
    /\ reqs[r].step = "idle"
    /\ \E case_id \in 1..(Len(cases) + 1) :
        LET req == [IdleRequest EXCEPT !.kind = "retry", !.target = case_id] IN
        IF case_id > Len(cases)
        THEN /\ reqs' = [reqs EXCEPT ![r] = [req EXCEPT !.step = "done",
                                                       !.response = "Error during retry"]]
             /\ UNCHANGED cases
        ELSE IF cases[case_id].status = "success"
        THEN /\ reqs' = [reqs EXCEPT ![r] = [req EXCEPT !.step = "done", !.case = case_id,
                                                       !.response = "refused"]]
             /\ UNCHANGED cases
        ELSE /\ cases' = [cases EXCEPT ![case_id].status = "pending"]
             /\ reqs' = [reqs EXCEPT ![r] =
                           [req EXCEPT !.step = "scraping", !.case = case_id,
                                       !.args = ScrapeArgs(cases[case_id].case_type,
                                                           cases[case_id].case_number,
                                                           cases[case_id].filing_year)]]
    /\ UNCHANGED <<details, orderRows, scrapeVars, parseVars, downloadVars, concVars, utilVars>>

\* scrape_case_data returns to the handler of request r, which stores the
\* result, answers and closes its scraper
FinishRequest(r) ==
    /\ reqs[r].step = "scraping"
    /\ \E res \in ScrapeResults : \E err \in DbErrors(res) :
        LET db == [cases |-> cases, details |-> details, orderRows |-> orderRows]
            after == IF reqs[r].kind = "search"
                     THEN SearchFinish(db, reqs[r].case, res, err)
                     ELSE ProcessScrapeResult(db, reqs[r].case, res, err).db
            response == IF reqs[r].kind = "search"
                        THEN (IF err = "commit" THEN "A critical error occurred" ELSE "shown")
                        ELSE IF reqs[r].kind = "retry" THEN "shown"
                        ELSE IF ProcessScrapeResult(db, reqs[r].case, res, err).ok
                             THEN "json success" ELSE "json failure"
        IN /\ cases' = after.cases
           /\ details' = after.details
           /\ orderRows' = after.orderRows
           /\ reqs' = [reqs EXCEPT ![r] = [@ EXCEPT !.step = "done", !.result = res,
                                                    !.err = err, !.response = response]]
    /\ UNCHANGED <<scrapeVars, parseVars, downloadVars, concVars, utilVars>>

AppNext ==
    \E r \in 1..NumRequests :
        \/ SearchCase(r)
        \/ ApiSearchCase(r)
        \/ RetryCase(r)
        \/ FinishRequest(r)

AppSpec == AppInit /\ [][AppNext]_vars

\* request r has called scrape_case_data
RanScrape(r) == reqs[r].args # NoArgs

\* the case number and the year meet the checks of the search form
PassesChecks(n, y) == ValidateCaseNumber(n) /\ y >= MinYear /\ y <= CurrentYear

\* C17: on every path that calls scrape_case_data (/search, /api/search,
\* /retry-case) the case number passed satisfies validate_case_number and the
\* filing year is an integer in [1950, current year]; a request failing either
\* check never reaches the scraper.
C17_ValidatedBeforeScrape ==
    \A r \in 1..NumRequests :
        /\ RanScrape(r) => PassesChecks(reqs[r].args.case_number, reqs[r].args.year)
        /\ (reqs[r].kind \in {"search", "api"} /\ RanScrape(r)) =>
               /\ PyInt(reqs[r].form.filing_year).ok
               /\ PassesChecks(Strip(reqs[r].form.case_number), PyInt(reqs[r].form.filing_year).val)

\* this step is the one in which request r gets its scrape result and answers
Finishes(r) == reqs[r].step = "scraping" /\ reqs'[r].step = "done"

\* the triple request r submitted; a retry submits the triple of its record
Submitted(r) ==
    IF reqs[r].kind = "retry"
    THEN [case_type |-> reqs[r].args.case_type, case_number |-> reqs[r].args.case_number,
          filing_year |-> reqs[r].args.year]
    ELSE [case_type |-> Strip(reqs[r].form.case_type),
          case_number |-> Strip(reqs[r].form.case_number),
          filing_year |-> PyInt(reqs[r].form.filing_year).val]

\* C18: when a /search, /api/search or /retry-case request that ran a scrape
\* finishes and its database writes succeeded, the Case record it worked on
\* exists with the submitted case_type, case_number and filing_year; its status
\* is 'failed' with the failure message kept in response_data if the scrape
\* returned Failure and 'success' if it returned Success, never 'pending'.
C18_OutcomeRecorded ==
    [][\A r \in 1..NumRequests :
         (Finishes(r) /\ reqs'[r].err = "none") =>
            /\ reqs'[r].case \in 1..Len(cases')
            /\ LET row == cases'[reqs'[r].case]
                   res == reqs'[r].result
               IN /\ row.case_type = Submitted(r).case_type
                  /\ row.case_number = Submitted(r).case_number
                  /\ row.filing_year = Submitted(r).filing_year
                  /\ IsFailureResult(res) =>
                        row.status = "failed" /\ row.response_data = JsonDumps(res)
                  /\ IsSuccessResult(res) => row.status = "success"
                  /\ row.status # "pending"]_vars

\* a search stored a failure, a retry stored a success
C18_Witness ==
    \E r, q \in 1..NumRequests :
        /\ reqs[r].kind = "search" /\ reqs[r].step = "done" /\ reqs[r].err = "none"
        /\ IsFailureResult(reqs[r].result)
        /\ cases[reqs[r].case].status = "failed"
        /\ cases[reqs[r].case].response_data = JsonDumps(reqs[r].result)
        /\ reqs[q].kind = "retry" /\ reqs[q].step = "done" /\ reqs[q].err = "none"
        /\ IsSuccessResult(reqs[q].result)
        /\ cases[reqs[q].case].status = "success"

NoSession == [by |-> 0, n |-> 0]

\* scraper_instance = CourtScraper(): the object handler r works with, given
\* the n objects constructed so far
NewScraper_Shared(r, n) == 1
NewScraper(r, n) == n + 1

ConcInit == ScrapeInit({0}) /\ ParseIdle /\ DownloadIdle /\ AppIdle /\ ConcIdle /\ UtilIdle

\* self.driver of the scraper of handler r
DriverOf(r) == instances[handlers[r].scraper]

\* the sessions driven or quit when handler r makes a call on self.driver
Touch(r) == IF DriverOf(r) # NoSession THEN touched \cup {<<DriverOf(r), r>>} ELSE touched

\* a request arrives and its handler constructs its scraper (driver = None)
ConstructScraper(r) ==
    /\ handlers[r].at = "idle"
    /\ instances' = Append(instances, NoSession)
    /\ handlers' = [handlers EXCEPT ![r] = [at |-> "loop", scraper |-> NewScraper(r, Len(instances)),
                                             tries |-> 0]]
    /\ UNCHANGED <<touched, scrapeVars, parseVars, downloadVars, appVars, utilVars>>

\* _setup_driver at the top of an attempt: a new browser session is assigned
\* to self.driver, or the start fails before there is one
AcquireSession(r) ==
    /\ handlers[r].at = "loop"
    /\ handlers[r].tries < MaxTries
    /\ \/ /\ instances' = [instances EXCEPT ![handlers[r].scraper] =
                                               [by |-> r, n |-> handlers[r].tries + 1]]
          /\ handlers' = [handlers EXCEPT ![r].at = "stages", ![r].tries = @ + 1]
       \/ /\ handlers' = [handlers EXCEPT ![r].tries = @ + 1]
          /\ UNCHANGED instances
    /\ UNCHANGED <<touched, scrapeVars, parseVars, downloadVars, appVars, utilVars>>

\* the stages of the attempt drive self.driver
RunStages(r) ==
    /\ handlers[r].at = "stages"
    /\ touched' = Touch(r)
    /\ handlers' = [handlers EXCEPT ![r].at = "finally"]
    /\ UNCHANGED <<instances, scrapeVars, parseVars, downloadVars, appVars, utilVars>>

\* the finally clause of the attempt: _close_driver; then the next attempt
\* or the return to the handler
ReleaseSession(r) ==
    /\ handlers[r].at = "finally"
    /\ touched' = Touch(r)
    /\ instances' = [instances EXCEPT ![handlers[r].scraper] = NoSession]
    /\ \E again \in BOOLEAN :
          handlers' = [handlers EXCEPT ![r].at = IF again /\ handlers[r].tries < MaxTries
                                                  THEN "loop" ELSE "returned"]
    /\ UNCHANGED <<scrapeVars, parseVars, downloadVars, appVars, utilVars>>

\* the loop ends without a session: the final return of scrape_case_data
GiveUp(r) ==
    /\ handlers[r].at = "loop"
    /\ handlers[r].tries >= MaxTries
    /\ handlers' = [handlers EXCEPT ![r].at = "returned"]
    /\ UNCHANGED <<instances, touched, scrapeVars, parseVars, downloadVars, appVars, utilVars>>

\* the finally clause of the handler: scraper_instance._close_driver()
HandlerCleanup(r) ==
    /\ handlers[r].at = "returned"
    /\ touched' = Touch(r)
    /\ instances' = [instances EXCEPT ![handlers[r].scraper] = NoSession]
    /\ handlers' = [handlers EXCEPT ![r].at = "answered"]
    /\ UNCHANGED <<scrapeVars, parseVars, downloadVars, appVars, utilVars>>

ConcNext ==
    \E r \in 1..NumRequests :
        \/ ConstructScraper(r)
        \/ AcquireSession(r)
        \/ RunStages(r)
        \/ ReleaseSession(r)
        \/ GiveUp(r)
        \/ HandlerCleanup(r)

ConcSpec == ConcInit /\ [][ConcNext]_vars

\* C20: when several search, API-search or retry requests run concurrently,
\* each uses its own CourtScraper instance and its own browser session: under
\* every interleaving no session is driven or released by a request other than
\* the one that started it, so by no two requests.
C20_SessionsNotShared ==
    /\ \A r, q \in 1..NumRequests :
          (r # q /\ handlers[r].scraper # 0 /\ handlers[q].scraper # 0)
              => handlers[r].scraper # handlers[q].scraper
    /\ \A p \in touched : p[1].by = p[2]
    /\ \A p, q \in touched : p[1] = q[1] => p[2] = q[2]

\* two requests hold a live session each at the same time, and both drove theirs
C20_Witness ==
    \E r, q \in 1..NumRequests :
        /\ r # q
        /\ handlers[r].at = "finally" /\ handlers[q].at = "finally"
        /\ DriverOf(r) # NoSession /\ DriverOf(q) # NoSession /\ DriverOf(r) # DriverOf(q)
        /\ <<DriverOf(r), r>> \in touched /\ <<DriverOf(q), q>> \in touched

(***************************************************************************)
(* C21 .. : the input checks of /search                                    *)
(***************************************************************************)
\* the messages that fit what is wrong with the fields of a form
MatchingMessages(form) ==
    LET f == Fields(form) IN
    (IF \E k \in {"case_type", "case_number", "filing_year"} : f[k] = <<>>
     THEN {"All fields are required"} ELSE {})
    \cup (IF ~ValidateCaseNumber(f.case_number) THEN {"Invalid case number format"} ELSE {})
    \cup (IF ~PyInt(f.filing_year).ok THEN {"Invalid filing year format"} ELSE {})
    \cup (IF PyInt(f.filing_year).ok
             /\ (PyInt(f.filing_year).val < MinYear \/ PyInt(f.filing_year).val > CurrentYear)
          THEN {"Filing year must be between"} ELSE {})

\* this step is the arrival of /search request r
SearchArrives(r) == reqs[r].step = "idle" /\ reqs'[r].kind = "search"

\* C21: a /search request with an empty field, a case number that
\* validate_case_number rejects, or a filing year that is not numeric or lies
\* outside [1950, current year] is answered with the matching error message,
\* creates no Case record, starts no scrape and leaves the database unchanged.
C21_BadInputRejected ==
    [][\A r \in 1..NumRequests :
          (SearchArrives(r) /\ MatchingMessages(reqs'[r].form) # {}) =>
              /\ reqs'[r].step = "done"
              /\ reqs'[r].response \in MatchingMessages(reqs'[r].form)
              /\ reqs'[r].case = 0
              /\ reqs'[r].args = NoArgs
              /\ UNCHANGED <<cases, details, orderRows>>]_vars

\* both requests were /search requests turned away, one for its case number
\* and one for its year, and the seeded database is as it was
C21_Witness ==
    /\ cases = SeededCases
    /\ \E r, q \in 1..NumRequests :
          /\ reqs[r].kind = "search" /\ reqs[r].response = "Invalid case number format"
          /\ reqs[q].kind = "search" /\ reqs[q].response = "Filing year must be between"

(***************************************************************************)
(* UtilSpec: validate_case_number and sanitize_filename (utils.py), each   *)
(* applied once to one argument                                            *)
(***************************************************************************)
MaxTextLen == 4

\* the characters of the short arguments
UtilChars == {"1", "a", "/", "-", " ", "<", "_"}

\* n times the character c
Repeat(c, n) == [i \in 1..n |-> c]

\* the arguments: every short text, the texts the tests of utils.py use,
\* texts around the length limits, None and a number
UtilInputs ==
    UNION { [1..k -> UtilChars] : k \in 0..MaxTextLen }
    \cup { <<"1","2","3","4">>, <<"1","2","3","/","4","5","6">>, <<"9","9","9","-","8","8","8">>,
           <<"a","b","c">>, <<"1","2","3","a","b","c">>,
           <<"f","i","l","e","<",">","n","a","m","e">>, <<"f","i","l","e",":","n","a","m","e">>,
           <<"f","i","l","e","/","n","a","m","e">>,
           Repeat("1", 50), Repeat("1", 51),
           <<" ">> \o Repeat("1", 25) \o <<"/">> \o Repeat("1", 24) \o <<" ">>,
           Repeat("a", 100), Repeat("a", 101),
           PyNone, PyNumber }

\* the characters sanitize_filename replaces: [<>:"/\|?*]
Problematic == {"<", ">", ":", "\"", "/", "\\", "|", "?", "*"}

\* re.sub(r'[<>:"/\\|?*]', '_', filename)
ReplaceProblematic(s) == [i \in 1..Len(s) |-> IF s[i] \in Problematic THEN "_" ELSE s[i]]

\* re.sub(r'_+', '_', filename)
CollapseUnderscores(s) ==
    LET kept == {i \in 1..Len(s) : i = 1 \/ s[i] # "_" \/ s[i - 1] # "_"}
        nth(k) == CHOOSE i \in kept : Cardinality({j \in kept : j <= i}) = k
    IN [k \in 1..Cardinality(kept) |-> s[nth(k)]]

\* filename.strip('_ ')
StripUnderscores(s) ==
    LET drop == {"_", " "} IN
    IF \A i \in 1..Len(s) : s[i] \in drop THEN <<>>
    ELSE LET a == CHOOSE i \in 1..Len(s) : s[i] \notin drop /\ \A j \in 1..(i-1) : s[j] \in drop
             b == CHOOSE i \in 1..Len(s) : s[i] \notin drop /\ \A j \in (i+1)..Len(s) : s[j] \in drop
         IN SubSeq(s, a, b)

Unknown == <<"u","n","k","n","o","w","n">>
FilePrefix == <<"f","i","l","e","_">>
TypeError == <<"TypeError">>

\* datetime.now().strftime("%Y%m%d_%H%M%S") at the moments a call can be made
Stamps ==
    { <<"2","0","2","6","1","1","0","1","_","0","9","3","0","0","0">>,
      <<"2","0","2","6","1","1","0","1","_","2","3","5","9","5","9">> }

\* sanitize_filename(filename), called when the clock shows now; TypeError
\* stands for the exception re.sub raises for an argument that is no str
SanitizeFilename(filename, now) ==
    IF filename = PyNone \/ filename = <<>> THEN Unknown
    ELSE IF ~IsStr(filename) THEN TypeError
    ELSE LET cut == StripUnderscores(CollapseUnderscores(ReplaceProblematic(filename)))
             named == IF cut = <<>> THEN FilePrefix \o now ELSE cut
         IN Truncate(named, 100)

UtilInit ==
    /\ ScrapeInit({0}) /\ ParseIdle /\ DownloadIdle /\ AppIdle /\ ConcIdle
    /\ given \in UtilInputs
    /\ validated = "unset"
    /\ sanitized = <<>>

\* validate_case_number(given)
ValidateCall ==
    /\ validated = "unset"
    /\ validated' = IF ValidateCaseNumber(given) THEN "True" ELSE "False"
    /\ UNCHANGED <<given, sanitized, scrapeVars, parseVars, downloadVars, appVars, concVars>>

\* sanitize_filename(given)
SanitizeCall ==
    /\ sanitized = <<>>
    /\ \E now \in Stamps : sanitized' = SanitizeFilename(given, now)
    /\ UNCHANGED <<given, validated, scrapeVars, parseVars, downloadVars, appVars, concVars>>

UtilNext == ValidateCall \/ SanitizeCall

UtilSpec == UtilInit /\ [][UtilNext]_vars

\* the separators a case number may hold
Separators == {"/", "-"}

\* 1 to 50 characters: a digit first, digits and at most one separator after it
CaseNumberShape(t) ==
    /\ Len(t) >= 1
    /\ Len(t) <= 50
    /\ t[1] \in Digits
    /\ \A i \in 1..Len(t) : t[i] \in Digits \cup Separators
    /\ Cardinality({i \in 1..Len(t) : t[i] \in Separators}) <= 1

\* C22: validate_case_number accepts exactly the strings that, trimmed of
\* whitespace, are 1 to 50 characters long and consist of one or more digits,
\* optionally followed by a single '/' or '-' and zero or more digits; None,
\* non-strings, the empty string and strings with any other character are
\* rejected.
C22_AcceptsExactlyCaseNumbers ==
    validated # "unset" =>
        (validated = "True" <=> (IsStr(given) /\ CaseNumberShape(Strip(given))))

\* a padded text of 50 characters with a separator was accepted
C22_Witness ==
    /\ validated = "True"
    /\ given # Strip(given)
    /\ Len(Strip(given)) = 50
    /\ \E i \in 1..Len(given) : given[i] = "/"

\* a name of ordinary characters with problematic ones inside it
PlainWithProblematic(name) ==
    /\ IsStr(name)
    /\ 1 <= Len(name) /\ Len(name) <= 100
    /\ \A i \in 1..Len(name) : name[i] \notin {"_", " "}
    /\ name[1] \notin Problematic
    /\ name[Len(name)] \notin Problematic
    /\ \E i \in 1..Len(name) : name[i] \in Problematic

\* C23: sanitize_filename replaces every problematic character
\* (< > : " / \ | ? *) of the name with an underscore, one underscore per
\* replaced character, so that 'file<>name' becomes 'file__name'.
C23_OneUnderscorePerCharacter ==
    (sanitized # <<>> /\ PlainWithProblematic(given)) =>
        sanitized = ReplaceProblematic(given)

\* C24: sanitize_filename applied to the empty string returns a generated
\* name: 'file_' followed by the date stamp of the moment of the call.
C24_EmptyNameGenerated ==
    (sanitized # <<>> /\ given = <<>>) =>
        \E now \in Stamps : StartsWith(sanitized, FilePrefix \o SubSeq(now, 1, 8))

(***************************************************************************)
(* C25 .. C27: the form and CAPTCHA stages on the search page (Spec)       *)
(***************************************************************************)
\* the number of the first strategy of a field that finds an element and
\* can write it, 0 if none: for the two selects and for the case number
SelectStrategy(selects, sels, option) ==
    FirstTrue([k \in 1..Len(sels) |->
                  LET i == FindSelect(selects, sels[k])
                  IN i > 0 /\ option \in selects[i].options])

InputStrategy(inputs, sels) ==
    FirstTrue([k \in 1..Len(sels) |->
                  LET i == FindInput(inputs, sels[k])
                  IN i > 0 /\ inputs[i].writable])

\* the page after the fields before the first failing one were written, each
\* into the element its first working strategy finds
ExpectedFill(p, q) ==
    LET tk == SelectStrategy(p.selects, case_type_selectors, q.case_type)
        nk == InputStrategy(p.inputs, case_number_selectors)
        yk == SelectStrategy(p.selects, year_selectors, q.filing_year)
        t == IF tk > 0 THEN FindSelect(p.selects, case_type_selectors[tk]) ELSE 0
        n == IF tk > 0 /\ nk > 0 THEN FindInput(p.inputs, case_number_selectors[nk]) ELSE 0
        y == IF n > 0 /\ yk > 0 THEN FindSelect(p.selects, year_selectors[yk]) ELSE 0
    IN [ok |-> y > 0,
        page |-> [p EXCEPT
            !.selects = [i \in 1..Len(p.selects) |->
                            IF i = y THEN [p.selects[i] EXCEPT !.selected = q.filing_year]
                            ELSE IF i = t THEN [p.selects[i] EXCEPT !.selected = q.case_type]
                            ELSE p.selects[i]],
            !.inputs = [i \in 1..Len(p.inputs) |->
                            IF i = n THEN [p.inputs[i] EXCEPT !.value = q.case_number]
                            ELSE p.inputs[i]]]]

\* this step is the form stage of the attempt
FillStep == pc = "fill" /\ pc' # "fill"

\* C25: _fill_search_form_enhanced fills case type, case number and filing
\* year in that order, each through the first strategy of its list that finds
\* an element and writes it; it succeeds iff all three were written, and at
\* the first field whose strategies all fail it fails with the later fields
\* untouched.
C25_OrderedFieldFallback ==
    [][FillStep =>
          LET r == FillSearchFormEnhanced(page, Query, crashed)
              want == ExpectedFill(page, Query)
          IN /\ r.ok <=> (~crashed /\ want.ok)
             /\ r.page = (IF crashed THEN page ELSE want.page)
             /\ (pc' = "captcha") <=> r.ok
             /\ r.ok => page' = want.page]_vars

\* the form was filled through fallbacks: the first input refused the case
\* number and the placeholder strategy found the second
C25_Witness ==
    /\ pc = "captcha"
    /\ Len(page.inputs) = 2
    /\ ~page.inputs[1].writable
    /\ page.inputs[1].value = <<>>
    /\ page.inputs[2].value = Query.case_number
    /\ Len(page.selects) = 2
    /\ page.selects[1].selected = Query.case_type
    /\ page.selects[2].selected = Query.filing_year

\* this step is the CAPTCHA stage of the attempt
CaptchaStep == pc = "captcha" /\ pc' # "captcha"

\* C26: when a numeric challenge (digits only, at least 3 characters) is
\* detected, _handle_captcha_enhanced writes exactly those digits into the
\* input found by the first input strategy that succeeds and returns success;
\* if no input strategy succeeds it returns failure and the attempt does not
\* reach the submit stage.
C26_ChallengeWrittenVerbatim ==
    [][(CaptchaStep /\ DetectChallenge(page, crashed) # PyNone) =>
          LET digits == DetectChallenge(page, crashed)
              ck == InputStrategy(page.inputs, captcha_input_selectors)
              c == FindInput(page.inputs, captcha_input_selectors[ck])
          IN /\ IsChallengeText(digits)
             /\ ck > 0 => /\ pc' = "submit"
                          /\ page' = [page EXCEPT !.inputs[c].value = digits]
             /\ ck = 0 => /\ pc' # "submit"
                          /\ \A i \in 1..Len(stagesRun') : stagesRun'[i].stage # "submit"
                          /\ stagesRun'[Len(stagesRun')] = [stage |-> "captcha", sess |-> driver,
                                                           ok |-> FALSE]]_vars

\* the challenge ' 560 ' of a div was written, trimmed, into the input named
\* captcha and the attempt is about to submit
C26_Witness ==
    /\ pc = "submit"
    /\ \E i \in 1..Len(page.texts) : page.texts[i].text = <<" ","5","6","0"," ">>
    /\ \E i \in 1..Len(page.inputs) :
          page.inputs[i].id = "captcha" /\ page.inputs[i].value = <<"5","6","0">>

\* the input the form stage wrote the case number into
CaseNumberInput(inputs) ==
    FindInput(inputs, case_number_selectors[InputStrategy(inputs, case_number_selectors)])

\* C27: at the moment the submit click is dispatched, the input the form stage
\* wrote the case number into still holds exactly the query's case number,
\* for every page shape and combination of selector fallbacks: the CAPTCHA
\* stage never clears or overwrites that field.
C27_CaseNumberKeptUntilSubmit ==
    (pc = "submit" /\ SubmitForm(page, crashed)) =>
        page.inputs[CaseNumberInput(page.inputs)].value = Query.case_number

(***************************************************************************)
(* C28 .. C30: the structural failures, the parties and the order links of *)
(* a parse (ParseSpec)                                                     *)
(***************************************************************************)
\* C28: markup without a no-record phrase and without an element matching a
\* table selector gives the results-table-not-found failure; a matched table
\* with fewer than 2 rows gives the no-data-rows failure; in both cases the
\* result carries no parties, dates or links and the browser stays on the
\* page it showed.
C28_StructuralFailures ==
    (ppc # "first" /\ ~HtmlHasNoRecordPhrase(html)) =>
        /\ ~html.hasTable =>
              /\ firstParse = [success |-> FALSE, error |-> ErrNoTable]
              /\ live = html
        /\ (html.hasTable /\ html.nrows < 2) =>
              /\ firstParse = [success |-> FALSE, error |-> ErrNoRows]
              /\ live = html

\* a page whose table has only a header row, with .pdf anchors and an orders
\* link on it, was parsed: no-data-rows, and the browser did not move
C28_Witness ==
    /\ ppc = "parsed"
    /\ html.hasTable /\ html.nrows = 1
    /\ html.ordersLink /\ html.otherLinks # <<>>
    /\ firstParse = FailureResult(ErrNoRows)
    /\ secondParse = FailureResult(ErrNoRows)
    /\ live = html

\* the text of the parties column of the first data row
PartiesOf(source) == IF Len(source.cols) > 2 THEN Strip(source.cols[3].text) ELSE <<>>

\* C29: plaintiff is the trimmed text of the parties column before the 'VS.'
\* separator (found without regard to case) and defendant the trimmed text
\* after it, with the characters as they appear in the column; without a
\* separator plaintiff is the whole text and defendant is 'N/A'.
C29_PartiesAsWritten ==
    (ppc # "first" /\ HasDataRow(html)) =>
        LET text == PartiesOf(html)
            at == FirstIndex(Upper(text), VsSep)
        IN /\ IsSuccessResult(firstParse)
           /\ IF at > 0
              THEN /\ firstParse.parties.plaintiff = Strip(SubSeq(text, 1, at - 1))
                   /\ firstParse.parties.defendant = Strip(SubSeq(text, at + Len(VsSep), Len(text)))
              ELSE /\ firstParse.parties.plaintiff = text
                   /\ firstParse.parties.defendant = <<"N","/","A">>

\* what each strategy of _extract_pdfs_enhanced finds for a source the
\* session shows: in the row, behind the orders link, in the whole markup
RowPdfs(source) == PdfUrls(ColLinks(source.cols))
OrdersPagePdfs(source) == CheckOrdersPage(source, FALSE)
ScanPdfs(source) == PdfUrls(ColLinks(source.cols) \o source.otherLinks)

\* C30: _extract_pdfs_enhanced takes the links of the first of (a) the row's
\* columns, (b) the secondary Orders page, (c) a scan of the whole markup that
\* yields at least one: the Orders page is visited only if (a) found none,
\* the scan counts only if (a) and (b) found none, the links returned come
\* from that one strategy, and if all three find none the parse is a Success
\* with an empty orders list.
C30_FirstYieldingStrategy ==
    (ppc # "first" /\ HasDataRow(html)) =>
        LET a == RowPdfs(html)
            b == OrdersPagePdfs(html)
            c == ScanPdfs(html)
            from == IF a # <<>> THEN a ELSE IF b # <<>> THEN b ELSE c
        IN /\ IsSuccessResult(firstParse)
           /\ FirstSeenOrder(OrderUrls(firstParse), from)
           /\ (ppc = "again" /\ live # html) => a = <<>>
           /\ (a = <<>> /\ b = <<>> /\ c = <<>>) => firstParse.orders = <<>>

\* the row had no link, the Orders page was visited and listed no file, and
\* the orders come from the scan of the markup
C30_Witness ==
    /\ ppc = "again"
    /\ HasDataRow(html)
    /\ RowPdfs(html) = <<>>
    /\ html.ordersLink /\ OrdersPagePdfs(html) = <<>>
    /\ live # html
    /\ IsSuccessResult(firstParse)
    /\ OrderUrls(firstParse) = <<PdfB>>

(***************************************************************************)
(* RaisingSpec: _parse_case_results_enhanced when a step of the extraction *)
(* raises.  The steps that can:                                            *)
(*   "cols"   reading the cells or the parties column (lines 381-391)      *)
(*   "dates"  reading the listing column (lines 394-395)                   *)
(*   "row"    method 1 of _extract_pdfs_enhanced (lines 452-459)           *)
(*   "scan"   method 3 of _extract_pdfs_enhanced (lines 466-473)           *)
(***************************************************************************)
ExtractionSteps == {"none", "cols", "dates", "row", "scan"}

\* _extract_pdfs_enhanced when step fault raises: 'except Exception' returns []
ExtractPdfsRaising(source, cols, shown, dead, fault) ==
    LET m1 == PdfUrls(ColLinks(cols))
        m2 == IF m1 = <<>> THEN CheckOrdersPage(shown, dead) ELSE m1
    IN IF fault = "row" THEN <<>>
       ELSE IF fault = "scan" /\ m2 = <<>> THEN <<>>
       ELSE ExtractPdfsEnhanced(source, cols, shown, dead)

\* what leaves _parse_case_results_enhanced when nothing catches the exception
Propagated == [success |-> FALSE, error |-> "raised"]

\* _parse_case_results_enhanced when step fault raises
ParseRaising_Uncaught(source, shown, dead, fault) ==
    LET plain == ParseCaseResultsEnhanced(source, shown, dead)
    IN IF ~plain.success \/ fault = "none" THEN plain ELSE Propagated

ParseRaising(source, shown, dead, fault) ==
    LET plain == ParseCaseResultsEnhanced(source, shown, dead)
    IN IF ~plain.success THEN plain
       ELSE IF fault \in {"cols", "dates"} THEN FailureResult(ErrParse)
       ELSE [plain EXCEPT !.orders =
                Orders(ExtractPdfsRaising(source, source.cols, shown, dead, fault),
                       plain.filing_date)]

\* the pages the session may show after the call
ShownAfterRaising(source, cur, fault) ==
    IF fault \in {"cols", "dates", "row"} THEN {cur} ELSE ShownAfterParse(source, cur)

RaisingInit ==
    /\ ScrapeInit({0}) /\ DownloadIdle /\ AppIdle /\ ConcIdle /\ UtilIdle
    /\ ppc = "first"
    /\ html \in ParsePages
    /\ live = html
    /\ firstParse = NoneResult
    /\ secondParse = NoneResult
    /\ raising \in ExtractionSteps

\* the call, with the step that raises in it
ParseRaises ==
    /\ ppc = "first"
    /\ firstParse' = ParseRaising(html, live, FALSE, raising)
    /\ live' \in ShownAfterRaising(html, live, raising)
    /\ ppc' = "parsed"
    /\ UNCHANGED <<html, secondParse, raising, scrapeVars, downloadVars, appVars, concVars, utilVars>>

RaisingNext == ParseRaises

RaisingSpec == RaisingInit /\ [][RaisingNext]_vars

\* C31: an exception raised while parties, dates or links are extracted from
\* the located table never leaves _parse_case_results_enhanced: it becomes the
\* parse-error failure result; raised inside the link extraction alone, it
\* gives an empty orders list and the parse is a Success with the parties and
\* dates it read.
C31_ExtractionErrorsContained ==
    (ppc = "parsed" /\ HasDataRow(html)) =>
        LET plain == ParseCaseResultsEnhanced(html, html, FALSE) IN
        /\ firstParse # Propagated
        /\ raising \in {"cols", "dates"} => firstParse = [success |-> FALSE, error |-> ErrParse]
        /\ raising \in {"row", "scan"} =>
              /\ IsSuccessResult(firstParse)
              /\ firstParse.parties = plain.parties
              /\ firstParse.filing_date = plain.filing_date
              /\ firstParse.next_hearing = plain.next_hearing
              /\ IF raising = "row" \/ (RowPdfs(html) = <<>> /\ OrdersPagePdfs(html) = <<>>)
                 THEN firstParse.orders = <<>>
                 ELSE firstParse.orders = plain.orders

\* the row had .pdf anchors, their extraction raised, and the parse is a
\* Success without orders
C31_Witness ==
    /\ ppc = "parsed"
    /\ raising = "row"
    /\ RowPdfs(html) # <<>>
    /\ IsSuccessResult(firstParse)
    /\ firstParse.orders = <<>>
    /\ firstParse.filing_date = Iso20230315

(***************************************************************************)
(* DebugSpec: CourtScraper.test_captcha_detection, called by the handler   *)
(* of /test-captcha on a scraper it constructed.  pc is "test" before      *)
(* _setup_driver, "test_navigate" and "test_inspect" inside the try block, *)
(* "done" after the return; result is the value returned.                  *)
(***************************************************************************)
PyTrue == <<"True">>
PyFalse == <<"False">>

DebugInit ==
    /\ pc = "test"
    /\ max_retries = 0
    /\ attempt = 0
    /\ driver = 0
    /\ sessions = <<>>
    /\ crashed = FALSE
    /\ page = BlankPage
    /\ markup = BlankMarkup
    /\ result = NoneResult
    /\ setupCalls = 0
    /\ backoffs = 0
    /\ lastFail = "none"
    /\ stagesRun = <<>>
    /\ closeCalls = 0
    /\ quitRaised = FALSE
    /\ lastParse = NoneResult
    /\ setupFails = 0
    /\ cleanups = 0
    /\ RestIdle

\* "return v" inside the try block of test_captcha_detection: finally, then
\* the return
TestReturn(v, raises, stage) ==
    /\ Close(raises)
    /\ result' = v
    /\ pc' = "done"
    /\ stagesRun' = Ran(stage, v = PyTrue)
    /\ page' = BlankPage
    /\ UNCHANGED <<max_retries, attempt, markup, setupCalls, backoffs, lastFail, lastParse,
                   setupFails, cleanups>>

\* "if not self._setup_driver(): return False", with the outcomes of
\* _setup_driver as in SetupDriver
TestSetup ==
    /\ pc = "test"
    /\ setupCalls' = setupCalls + 1
    /\ \E outcome \in {"ok", "fail_early", "fail_late"} :
        LET new == Len(sessions) + 1 IN
        CASE outcome = "ok" ->
               /\ sessions' = Append(sessions, 0)
               /\ driver' = new
               /\ pc' = "test_navigate"
               /\ stagesRun' = <<[stage |-> "acquire", sess |-> new, ok |-> TRUE]>>
               /\ UNCHANGED <<result, setupFails>>
          [] outcome = "fail_early" ->
               /\ UNCHANGED <<sessions, driver>>
               /\ pc' = "done"
               /\ result' = PyFalse
               /\ setupFails' = setupFails + 1
               /\ stagesRun' = <<[stage |-> "acquire", sess |-> 0, ok |-> FALSE]>>
          [] outcome = "fail_late" ->
               /\ sessions' = Append(sessions, 0)
               /\ driver' = new
               /\ pc' = "done"
               /\ result' = PyFalse
               /\ setupFails' = setupFails + 1
               /\ stagesRun' = <<[stage |-> "acquire", sess |-> new, ok |-> FALSE]>>
    /\ UNCHANGED <<max_retries, attempt, crashed, page, markup, backoffs, lastFail, closeCalls,
                   quitRaised, lastParse, cleanups>>
    /\ UNCHANGED restVars

\* driver.get(self.case_search_url), the sleep and save_screenshot
TestNavigate ==
    /\ pc = "test_navigate"
    /\ \/ /\ \E p \in FormPages : page' = p
          /\ pc' = "test_inspect"
          /\ stagesRun' = Ran("navigate", TRUE)
          /\ UNCHANGED <<max_retries, attempt, driver, sessions, crashed, markup, result,
                         setupCalls, backoffs, lastFail, closeCalls, quitRaised, lastParse,
                         setupFails, cleanups>>
       \/ \E raises \in BOOLEAN : TestReturn(PyFalse, raises, "navigate")
    /\ UNCHANGED restVars

\* the selector loop, which only reads element.text, and the page_source
\* snippet; dies: the browser died, page_source raises
TestInspect ==
    /\ pc = "test_inspect"
    /\ \E raises, dies \in BOOLEAN :
          TestReturn(IF dies THEN PyFalse ELSE PyTrue, raises, "inspect")
    /\ UNCHANGED restVars

DebugNext == TestSetup \/ TestNavigate \/ TestInspect

DebugSpec == DebugInit /\ [][DebugNext]_vars

\* no select of the page has an option chosen and no input holds a value
NothingWritten(p) ==
    /\ \A i \in 1..Len(p.selects) : p.selects[i].selected = ""
    /\ \A i \in 1..Len(p.inputs) : p.inputs[i].value = <<>>

\* C32: test_captcha_detection only acquires a session, navigates and
\* inspects: it writes no form field and clicks no submit button, and it has
\* released every browser session it started when it returns, on every exit
\* path (normal completion, navigation error, _setup_driver reporting failure).
C32_DiagnosticReleasesSessions ==
    /\ NothingWritten(page)
    /\ \A i \in 1..Len(stagesRun) : stagesRun[i].stage \in {"acquire", "navigate", "inspect"}
    /\ pc = "done" => AllQuit(0)

(***************************************************************************)
(* C33, C34, C36: stored cases under repeated and overlapping requests     *)
(* (AppSpec)                                                               *)
(***************************************************************************)
\* the table holds a Case with status 'success' for the triple of the form
HasSuccessFor(tbl, form) ==
    LET f == Fields(form) IN
    /\ PyInt(f.filing_year).ok
    /\ \E id \in 1..Len(tbl) :
          /\ tbl[id].case_type = f.case_type
          /\ tbl[id].case_number = f.case_number
          /\ tbl[id].filing_year = PyInt(f.filing_year).val
          /\ tbl[id].status = "success"

\* this step is the arrival of /search or /api/search request r
LookupArrives(r) == reqs[r].step = "idle" /\ reqs'[r].kind \in {"search", "api"}

\* C33: when the database holds a Case with status 'success' for a triple, a
\* /search or /api/search request for that triple starts no scrape and
\* creates no Case record, whatever searches for the triple came before,
\* failed ones stored ahead of the successful one included.
C33_SuccessServedFromDatabase ==
    [][\A r \in 1..NumRequests :
          (LookupArrives(r) /\ HasSuccessFor(cases, reqs'[r].form)) =>
              /\ reqs'[r].step = "done"
              /\ reqs'[r].args = NoArgs
              /\ Len(cases') = Len(cases)]_vars

\* C34: once the status of a Case record is 'success' it never changes again,
\* under any interleaving of /search, /api/search and /retry-case requests:
\* a retry of a successful case is refused, and overlapping retries of one
\* failed case cannot turn a recorded success back into 'failed' or 'pending'.
C34_SuccessIsFinal ==
    [][\A id \in 1..Len(cases) :
          cases[id].status = "success" =>
              (id <= Len(cases') /\ cases'[id].status = "success")]_vars

\* this step is the arrival of /retry-case request r
RetryArrives(r) == reqs[r].step = "idle" /\ reqs'[r].kind = "retry"

\* the records other than Case id, and the other tables, are as before the step
OnlyCaseTouched(id) ==
    /\ Len(cases') = Len(cases)
    /\ \A other \in (1..Len(cases)) \ {id} : cases'[other] = cases[other]
    /\ details' = details
    /\ orderRows' = orderRows

\* C36: retry_case on a Case whose status is not 'success' runs one scrape
\* with the case_type, case_number and filing_year stored in that record and
\* records the outcome on that same record (when the database write meets no
\* error; a write that raises is rolled back and changes no record), creating
\* no Case record; on a Case whose status is 'success' it starts no scrape and
\* changes no record.
C36_RetryWorksOnItsRecord ==
    [][\A r \in 1..NumRequests :
          LET id == reqs'[r].target IN
          /\ (RetryArrives(r) /\ id \in 1..Len(cases)) =>
                IF cases[id].status = "success"
                THEN /\ reqs'[r].step = "done"
                     /\ reqs'[r].args = NoArgs
                     /\ <<cases', details', orderRows'>> = <<cases, details, orderRows>>
                ELSE /\ reqs'[r].step = "scraping"
                     /\ reqs'[r].case = id
                     /\ reqs'[r].args = ScrapeArgs(cases[id].case_type, cases[id].case_number,
                                                   cases[id].filing_year)
                     /\ OnlyCaseTouched(id)
                     /\ cases'[id] = [cases[id] EXCEPT !.status = "pending"]
          /\ (Finishes(r) /\ reqs[r].kind = "retry") =>
                /\ reqs'[r].case = id
                /\ reqs'[r].args = reqs[r].args
                /\ Len(cases') = Len(cases)
                /\ \A other \in (1..Len(cases)) \ {id} : cases'[other] = cases[other]
                /\ IF reqs'[r].err = "none"
                   THEN cases'[id] = [cases[id] EXCEPT
                                         !.status = StatusOf(reqs'[r].result),
                                         !.response_data = JsonDumps(reqs'[r].result)]
                   ELSE <<cases', details', orderRows'>> = <<cases, details, orderRows>>]_vars

\* the retry of the failed seeded case stored a success on that record and
\* the retry of the successful one was refused: the table still has two records
C36_Witness ==
    \E r, q \in 1..NumRequests :
        /\ reqs[r].kind = "retry" /\ reqs[r].step = "done" /\ reqs[r].target = 2
        /\ reqs[r].err = "none" /\ IsSuccessResult(reqs[r].result)
        /\ reqs[r].args = ScrapeArgs(CaseTypeText, NumberText, 2023)
        /\ reqs[q].kind = "retry" /\ reqs[q].target = 1 /\ reqs[q].response = "refused"
        /\ reqs[q].args = NoArgs
        /\ Len(cases) = 2
        /\ cases[2].status = "success" /\ cases[2].response_data = JsonDumps(reqs[r].result)
        /\ cases[1] = SeededCases[1]

(***************************************************************************)
(* download_order (app.py): GET /download/<order_id>                       *)
(*   localPaths  the column local_pdf_path, None where no id is mapped     *)
(*   files       the files of UPLOAD_FOLDER                                *)
(*   an answer   [order, how, body]: how is "local" (the stored file was   *)
(*               sent), "fetched" (the url was fetched, saved and sent) or *)
(*               "redirect" (a flash message and a redirect, body PyNone)  *)
(***************************************************************************)
MaxServed == 3

UploadFolder == <<"d","o","w","n","l","o","a","d","s","/">>
PdfSuffix == <<".","p","d","f">>
OrderText == <<"O","r","d","e","r">>

\* the characters of an order type of the parser
TypeText(t) == IF t = "Order" THEN OrderText ELSE <<>>

TwoDigits(n) == <<DigitChars[((n \div 10) % 10) + 1], DigitChars[(n % 10) + 1]>>

\* d.strftime('%Y-%m-%d') for the date d = <<year, month, day>>
Strftime(d) ==
    TwoDigits(d[1] \div 100) \o TwoDigits(d[1] % 100) \o <<"-">> \o TwoDigits(d[2])
        \o <<"-">> \o TwoDigits(d[3])

\* os.path.join(UPLOAD_FOLDER, filename) for the file name download_order
\* generates from the case number of the order's case, the order type and date
LocalPath(case_number, order_type, order_date, now) ==
    LET date_str == IF order_date = PyNone THEN Unknown ELSE Strftime(order_date)
    IN UploadFolder \o SanitizeFilename(case_number, now) \o <<"_">>
           \o SanitizeFilename(order_type, now) \o <<"_">> \o date_str \o PdfSuffix

\* the document the court site keeps at url
Document(url) == <<"%","P","D","F","-">> \o url

\* what a request of url can meet
FetchResponses(url) ==
    { [outcome |-> "ok", ctype |-> PdfType, content |-> Document(url)],
      [outcome |-> "ok", ctype |-> HtmlType, content |-> <<"<","h","t","m","l",">">>],
      [outcome |-> "Timeout", ctype |-> <<>>, content |-> <<>>] }

\* order.local_pdf_path
PathOf(paths, order_id) == IF order_id \in DOMAIN paths THEN paths[order_id] ELSE PyNone

\* open(filepath, 'wb').write(content)
WriteFile(disk, filepath, content) ==
    [f \in (DOMAIN disk) \cup {filepath} |-> IF f = filepath THEN content ELSE disk[f]]

Redirect(order_id) == [order |-> order_id, how |-> "redirect", body |-> PyNone]

\* download_order(order_id) on the tables tbl (Case) and rows (Order), the
\* column paths and the folder disk, the request of the url meeting resp:
\* the column and the folder afterwards, and the answer
DownloadOrder(tbl, rows, paths, disk, order_id, resp, now) ==
    IF order_id \notin 1..Len(rows)
    THEN [paths |-> paths, disk |-> disk, answer |-> Redirect(order_id)]
    ELSE LET order == rows[order_id]
             local_pdf_path == PathOf(paths, order_id)
             pdf_content == DownloadPdf(resp).value
             filepath == LocalPath(tbl[order.case_id].case_number, TypeText(order.order_type),
                                   order.order_date, now)
         IN IF local_pdf_path # PyNone /\ local_pdf_path \in DOMAIN disk
            THEN [paths |-> paths, disk |-> disk,
                  answer |-> [order |-> order_id, how |-> "local", body |-> disk[local_pdf_path]]]
            ELSE IF order.pdf_url # <<>> /\ pdf_content # PyNone /\ pdf_content # <<>>
            THEN [paths |-> [i \in (DOMAIN paths) \cup {order_id} |->
                                IF i = order_id THEN filepath ELSE paths[i]],
                  disk |-> WriteFile(disk, filepath, pdf_content),
                  answer |-> [order |-> order_id, how |-> "fetched",
                              body |-> WriteFile(disk, filepath, pdf_content)[filepath]]]
            ELSE [paths |-> paths, disk |-> disk, answer |-> Redirect(order_id)]

\* the database after both seeded cases were scraped with success: each
\* case has the two orders of the links of its row
ScrapedDb ==
    LET res == ParseCaseResultsEnhanced(CasePage, CasePage, FALSE)
        empty == [cases |-> SeededCases, details |-> <<>>, orderRows |-> <<>>]
    IN Saved(Saved(empty, 1, res), 2, res)

OrderInit ==
    /\ ScrapeInit({0}) /\ ParseIdle /\ ConcIdle /\ UtilIdle
    /\ cases = ScrapedDb.cases
    /\ details = ScrapedDb.details
    /\ orderRows = ScrapedDb.orderRows
    /\ reqs = [r \in 1..NumRequests |-> IdleRequest]
    /\ downloads = <<>>
    /\ localPaths = <<>>
    /\ files = <<>>
    /\ served = <<>>

\* GET /download/<order_id> is served
DownloadOrderCall ==
    /\ Len(served) < MaxServed
    /\ \E order_id \in 1..(Len(orderRows) + 1), now \in Stamps :
          \E resp \in (IF order_id <= Len(orderRows) THEN FetchResponses(orderRows[order_id].pdf_url)
                       ELSE FetchResponses(<<>>)) :
             LET out == DownloadOrder(cases, orderRows, localPaths, files, order_id, resp, now)
             IN /\ localPaths' = out.paths
                /\ files' = out.disk
                /\ served' = Append(served, out.answer)
    /\ UNCHANGED <<downloads, scrapeVars, parseVars, appVars, concVars, utilVars>>

OrderNext == DownloadOrderCall

OrderSpec == OrderInit /\ [][OrderNext]_vars

\* C35: for every order, /download/<order_id> serves the PDF bytes obtained
\* from that order's own pdf_url, freshly fetched or kept as the local copy
\* of an earlier fetch of that order, after any downloads of other orders,
\* other orders of the same case with its order type and date included.
C35_OwnDocumentServed ==
    \A i \in 1..Len(served) :
        served[i].how # "redirect" =>
            served[i].body = Document(orderRows[served[i].order].pdf_url)

==============================================================================
